---- MODULE Spec2Model ----
(***************************************************************************)
(* Model of near-mcp: the bounded-concurrency mapper mapSemaphore          *)
(* (src/utils.ts), the tool handlers of createMcpServer (src/services.ts)  *)
(* that touch the keystore and the chain, and the NearToken value type.    *)
(*                                                                         *)
(* Three specifications share the variables:                               *)
(*   SpecMap   - one call of mapSemaphore on the JavaScript event loop     *)
(*   SpecTools - sequences of tool invocations against keystore and chain  *)
(*   SpecToken - NearToken construction and conversion                     *)
(***************************************************************************)
EXTENDS Integers, Sequences, FiniteSets, TLC

\* ------------------------------------------------------------------------
\* Bounds
\* ------------------------------------------------------------------------
MaxItems == 3
MaxConc == 3
MaxRoute == 2
MaxYocto == 120
MaxNegative == 3
MaxDecimals == 1
MaxPages == 4
MaxTokens == 2
MaxListing == 3
MaxResults == 2
MaxInvocations == 2
MaxSessions == 2

\* ------------------------------------------------------------------------
\* State
\* ------------------------------------------------------------------------
VARIABLES
    \* mapSemaphore call
    items,        \* the input array, item k is the value k
    concurrency,  \* the concurrency argument
    pc,           \* position of the async function mapSemaphore
    nextItem,     \* index of the next item of the for-of loop
    q,            \* q[i]: state of the promise returned by f(items[i])
    p,            \* p[i]: state of f(item).then(..).finally(..)
    promises,     \* the array `promises`
    results,      \* the array `results`
    micro,        \* the microtask (job) queue of the event loop
    awaited,      \* the Promise.race / Promise.all the function awaits
    fulfilOrder,  \* history: items in the order their transform fulfilled
    \* tool handlers
    keystore,     \* UnencryptedFileSystemKeyStore: <<network, account>> -> key pair
    chain,        \* the ledger: <<network, account>> -> existence and access keys
    submitted,    \* the transactions the last tool invocation submitted
    resp,         \* the response of the last tool invocation
    \* NearToken
    tokInput,     \* the argument of the last NearToken.parse_yocto_near call
    token,        \* the NearToken instance the call produced, if any
    tokResult,    \* what the last NearToken call returned or threw
    \* Ref Finance helpers
    refCall,      \* the arguments of the last helper call
    refResult,    \* what that call returned
    \* the server process
    invocations,  \* the account_create_account invocations in progress
    server,       \* what the run command handed to runMcpServer
    transports,   \* the Map `transports`: sessionId -> SSEServerTransport
    connections,  \* the state of each GET /sse request
    posted        \* the outcome of the last POST /messages

mapVars == <<items, concurrency, pc, nextItem, q, p, promises, results,
             micro, awaited, fulfilOrder>>

toolVars == <<keystore, chain, submitted, resp>>

tokVars == <<tokInput, token, tokResult>>

refVars == <<refCall, refResult>>

hostVars == <<invocations, server, transports, connections, posted>>

vars == <<mapVars, toolVars, tokVars, refVars, hostVars>>

\* ------------------------------------------------------------------------
\* Array helpers (Array.prototype.indexOf / splice)
\* ------------------------------------------------------------------------
Range(s) == {s[k] : k \in 1..Len(s)}

Max(a, b) == IF a > b THEN a ELSE b
Min(a, b) == IF a < b THEN a ELSE b

\* 0-based index of the first occurrence of x, -1 when absent
IndexOf(s, x) ==
    IF x \in Range(s)
    THEN (CHOOSE k \in 1..Len(s) : s[k] = x /\ \A j \in 1..(k-1) : s[j] # x) - 1
    ELSE -1

\* s.splice(start, 1): a negative start counts from the end of the array
Splice1(s, start) ==
    LET n == Len(s)
        from == IF start < 0 THEN Max(n + start, 0) ELSE Min(start, n)
    IN  IF from >= n THEN s
        ELSE [k \in 1..(n-1) |-> IF k <= from THEN s[k] ELSE s[k+1]]

Job(kind, i) == [kind |-> kind, item |-> i]

NoAwait == [kind |-> "none", state |-> "none", members |-> {}, remaining |-> 0]

\* ------------------------------------------------------------------------
\* Keystore, ledger and tool responses
\* ------------------------------------------------------------------------
Nets == {"mainnet", "testnet"}

\* account ids as <<name, suffix>>
Alice == <<"alice", ".near">>
Carol == <<"carol", ".near">>
Bob == <<"bob", ".testnet">>
Implicit == <<"0f3a", "">>
\* the account ids tools are invoked with; key files may name the others
Accts == {Alice, Carol}

KeyPairs == {"k1", "k2"}
NoKey == "none"

\* keyPair.getPublicKey().toString()
PublicKeyOf(k) == <<"ed25519", k>>

PublicKeys == {PublicKeyOf(k) : k \in KeyPairs}

Entries == Nets \X Accts

Absent == [exists |-> FALSE, keys |-> {}]

NoResp == [tool |-> "none", net |-> "none", acct |-> <<>>, outcome |-> "none",
           thrown |-> FALSE, text |-> <<>>, inner |-> "none"]

\* a handler returns { content: [{ type: 'text', text }] }
Returned(tool, n, a, outcome, text, inner) ==
    [tool |-> tool, net |-> n, acct |-> a, outcome |-> outcome,
     thrown |-> FALSE, text |-> text, inner |-> inner]

\* a handler's promise rejects: an awaited call threw outside any try block
Thrown(tool, n, a) ==
    [tool |-> tool, net |-> n, acct |-> a, outcome |-> "failure",
     thrown |-> TRUE, text |-> <<>>, inner |-> "none"]

\* the state of the mapper variables while another specification runs
MapIdle ==
    /\ items = <<>>
    /\ concurrency = 1
    /\ pc = "idle"
    /\ nextItem = 1
    /\ q = <<>>
    /\ p = <<>>
    /\ promises = <<>>
    /\ results = <<>>
    /\ micro = <<>>
    /\ awaited = NoAwait
    /\ fulfilOrder = <<>>

\* the state of the NearToken variables while another specification runs
NoToken == [exists |-> FALSE, yoctoNear |-> 0]
TokenIdle ==
    /\ tokInput = [kind |-> "none"]
    /\ token = NoToken
    /\ tokResult = [kind |-> "none"]

\* the state of the Ref Finance variables while another specification runs
RefIdle ==
    /\ refCall = [fn |-> "none"]
    /\ refResult = [fn |-> "none"]

\* the state of the server variables while another specification runs
HostIdle ==
    /\ invocations = <<>>
    /\ server = [started |-> FALSE]
    /\ transports = {}
    /\ connections = <<>>
    /\ posted = [status |-> 0]

\* the state of the tool variables while another specification runs
ToolsIdle ==
    /\ keystore = [e \in Entries |-> NoKey]
    /\ chain = [e \in Entries |-> Absent]
    /\ submitted = {}
    /\ resp = NoResp

\* ------------------------------------------------------------------------
\* Helpers of the tool handlers
\* ------------------------------------------------------------------------
Ok(v) == [ok |-> TRUE, value |-> v]
Err(e) == [ok |-> FALSE, value |-> e]

\* getNetworkFromAccountId: the network is read off the account id's suffix
getNetworkFromAccountId(a) ==
    IF a[2] = ".near" THEN Ok("mainnet")
    ELSE IF a[2] = ".testnet" THEN Ok("testnet")
    ELSE Err("Invalid account id")

\* the ledger's record of an account; ids outside the model are absent
Ledger(n, a) == IF <<n, a>> \in Entries THEN chain[<<n, a>>] ELSE Absent

\* getAccount: connection.account(id) then getAccountBalance(), any throw
\* (unknown account, RPC failure) becomes { ok: false }
getAccount(n, a, rpcUp) ==
    IF rpcUp /\ Ledger(n, a).exists
    THEN Ok(a)
    ELSE Err("Cannot find account by account id")

\* private key strings: '', a malformed string, or 'ed25519:<secret>'
EmptyString == [curve |-> "", secret |-> NoKey]
PrivateKeyStrings ==
    {EmptyString, [curve |-> "bogus", secret |-> NoKey]}
        \cup {[curve |-> "ed25519", secret |-> k] : k \in KeyPairs}

\* KeyPair.fromString inside try/catch; the empty string is falsy
KeyPairFromString(str) ==
    IF str = EmptyString THEN Err("No private key provided")
    ELSE IF str.curve = "ed25519" /\ str.secret \in KeyPairs THEN Ok(str.secret)
    ELSE Err("Unknown curve")

\* keystore.setKey(networkId, accountId, keyPair)
SetKey(ks, n, a, k) == [ks EXCEPT ![<<n, a>>] = k]

\* keystore.removeKey(networkId, accountId)
RemoveKey(ks, n, a) == [ks EXCEPT ![<<n, a>>] = NoKey]

\* a transaction of account a is accepted only when signed with a key of the
\* keystore that is an access key of a on the ledger
CanSign(n, a) ==
    /\ keystore[<<n, a>>] # NoKey
    /\ chain[<<n, a>>].exists
    /\ PublicKeyOf(keystore[<<n, a>>]) \in chain[<<n, a>>].keys

Tx(kind, n, a, arg) == [kind |-> kind, net |-> n, acct |-> a, arg |-> arg]

ErrorText(e) == <<"Error: ", e>>

\* ------------------------------------------------------------------------
\* system_import_account
\* ------------------------------------------------------------------------
\* accessKeys.some(key => key.public_key === keyPair.getPublicKey().toString())
ImportMatches(n, a, k) == PublicKeyOf(k) \in Ledger(n, a).keys

ImportFaults == {"none", "rpc", "getAccessKeys", "setKey"}

\* the steps both import operations share once the key pair, the account id
\* and the network are known
ImportKey(tool, n, a, k, fault) ==
    LET acc == getAccount(n, a, fault # "rpc")
    IN  IF ~acc.ok
        THEN /\ resp' = Returned(tool, n, a, "failure", ErrorText(acc.value), "none")
             /\ keystore' = keystore
        ELSE IF fault = "getAccessKeys"
        THEN /\ resp' = Thrown(tool, n, a)
             /\ keystore' = keystore
        ELSE IF ~ImportMatches(n, a, k)
        THEN /\ resp' = Returned(tool, n, a, "failure",
                    ErrorText("does not have matching access key"), "none")
             /\ keystore' = keystore
        ELSE IF fault = "setKey"
        THEN /\ resp' = Thrown(tool, n, a)
             /\ keystore' = keystore
        ELSE /\ resp' = Returned(tool, n, a, "success",
                    <<"Account imported: ", a>>, "none")
             /\ keystore' = SetKey(keystore, n, a, k)

\* op = import_from_private_key
ImportFromPrivateKey(n, a, privateKey, fault) ==
    LET tool == "system_import_account"
        kp == KeyPairFromString(privateKey)
    IN  /\ IF ~kp.ok
           THEN /\ resp' = Returned(tool, n, a, "failure",
                       <<"Failed to import private key. Error: ", kp.value>>, "none")
                /\ keystore' = keystore
           ELSE ImportKey(tool, n, a, kp.value, fault)
        /\ UNCHANGED chain
        /\ submitted' = {}

\* key files: unreadable, or [accountId, keyPair]
NoFile == [readable |-> FALSE, acct |-> <<>>, key |-> NoKey]
KeyFiles ==
    {NoFile} \cup {[readable |-> TRUE, acct |-> a, key |-> k] :
                      a \in Accts \cup {Bob, Implicit}, k \in KeyPairs}

\* op = import_from_file
ImportFromFile(file, fault) ==
    LET tool == "system_import_account"
        net == getNetworkFromAccountId(file.acct)
    IN  /\ IF ~file.readable
           THEN /\ resp' = Returned(tool, "none", <<>>, "failure",
                       ErrorText("cannot read key file"), "none")
                /\ keystore' = keystore
           ELSE IF ~net.ok
           THEN /\ resp' = Returned(tool, "none", file.acct, "failure",
                       ErrorText(net.value), "none")
                /\ keystore' = keystore
           ELSE ImportKey(tool, net.value, file.acct, file.key, fault)
        /\ UNCHANGED chain
        /\ submitted' = {}

system_import_account ==
    /\ \/ \E n \in Nets, a \in Accts, privateKey \in PrivateKeyStrings,
             fault \in ImportFaults :
            ImportFromPrivateKey(n, a, privateKey, fault)
       \/ \E file \in KeyFiles, fault \in ImportFaults :
            ImportFromFile(file, fault)
    /\ UNCHANGED <<mapVars, tokVars, refVars, hostVars>>

\* ------------------------------------------------------------------------
\* system_remove_local_account
\* ------------------------------------------------------------------------
\* mutant: every key of the network is removed
RemoveLocalAccountWholeNetwork(n, a, fsOk) ==
    LET tool == "system_remove_local_account"
    IN  /\ IF ~fsOk
           THEN /\ resp' = Returned(tool, n, a, "failure",
                       ErrorText("cannot remove key file"), "none")
                /\ keystore' = keystore
           ELSE /\ resp' = Returned(tool, n, a, "success",
                       <<"Account removed: ", a>>, "none")
                /\ keystore' = [e \in Entries |->
                                   IF e[1] = n THEN NoKey ELSE keystore[e]]
        /\ UNCHANGED chain
        /\ submitted' = {}

\* the handler: keystore.removeKey inside try/catch
RemoveLocalAccount(n, a, fsOk) ==
    LET tool == "system_remove_local_account"
    IN  /\ IF ~fsOk
           THEN /\ resp' = Returned(tool, n, a, "failure",
                       ErrorText("cannot remove key file"), "none")
                /\ keystore' = keystore
           ELSE /\ resp' = Returned(tool, n, a, "success",
                       <<"Account removed: ", a>>, "none")
                /\ keystore' = RemoveKey(keystore, n, a)
        /\ UNCHANGED chain
        /\ submitted' = {}

system_remove_local_account ==
    /\ \E n \in Nets, a \in Accts, fsOk \in BOOLEAN : RemoveLocalAccount(n, a, fsOk)
    /\ UNCHANGED <<mapVars, tokVars, refVars, hostVars>>

\* ------------------------------------------------------------------------
\* account_verify_signature
\* ------------------------------------------------------------------------
Curves == {"ed25519", "secp256k1", "bogus"}
Encodings == {"base64", "base58"}

\* curvePrefixToKeyType
curvePrefixToKeyType(curve) ==
    IF curve \in {"ed25519", "secp256k1"} THEN Ok(curve)
    ELSE Err("Unsupported curve prefix")

\* signatureData: text that is not base58, or the encoded signature made
\* with key pair `by` (NoKey: bytes that are nobody's signature)
SignatureInputs ==
    {[decodable |-> FALSE, by |-> NoKey]}
        \cup {[decodable |-> TRUE, by |-> k] : k \in KeyPairs \cup {NoKey}}

\* base58.decode throws on text outside the alphabet; Buffer.from never throws
ParseSignature(curve, encoding, sig) ==
    LET c == curvePrefixToKeyType(curve)
    IN  IF ~c.ok THEN c
        ELSE IF encoding = "base58" /\ ~sig.decodable THEN Err("Non-base58 character")
        ELSE Ok(<<c.value, sig.by>>)

\* where an invocation fails: the two ledger calls, or verify on bytes that
\* are no signature; a ledger fault ends the handler before it reads the
\* signature arguments, so one signature input stands for all of them there
VerifyFaults(curve, encoding, sig) ==
    {"none"}
        \cup (IF sig.by = NoKey /\ sig.decodable THEN {"verify"} ELSE {})
        \cup (IF curve = "ed25519" /\ encoding = "base64" /\ ~sig.decodable
              THEN {"rpc", "getAccessKeys"} ELSE {})

VerifySignature(n, a, curve, encoding, sig, fault) ==
    LET tool == "account_verify_signature"
        acc == getAccount(n, a, fault # "rpc")
        parsed == ParseSignature(curve, encoding, sig)
        keys == chain[<<n, a>>].keys
    IN  /\ resp' =
              IF ~acc.ok
              THEN Returned(tool, n, a, "failure", ErrorText(acc.value), "none")
              ELSE IF fault = "getAccessKeys"
              THEN Thrown(tool, n, a)
              ELSE IF ~parsed.ok
              THEN Returned(tool, n, a, "failure",
                       <<"Unable to parse signature: ", parsed.value>>, "none")
              ELSE IF ~\E pk \in keys : pk[1] = parsed.value[1]
              THEN Returned(tool, n, a, "failure",
                       ErrorText("Unable to find a valid public key with curve"), "none")
              ELSE IF parsed.value[2] = NoKey /\ fault = "verify"
              THEN Thrown(tool, n, a)
              ELSE IF ~\E pk \in keys : parsed.value[2] # NoKey
                                         /\ pk = PublicKeyOf(parsed.value[2])
              THEN Returned(tool, n, a, "failure",
                       <<"Unable to find a valid public key for the account ", a>>,
                       "none")
              ELSE Returned(tool, n, a, "success",
                       <<"{ message: Found matching public key", a>>, "none")
        /\ UNCHANGED <<keystore, chain>>
        /\ submitted' = {}

account_verify_signature ==
    /\ \E n \in Nets, a \in Accts, curve \in Curves, encoding \in Encodings,
          sig \in SignatureInputs :
         \E fault \in VerifyFaults(curve, encoding, sig) :
            VerifySignature(n, a, curve, encoding, sig, fault)
    /\ UNCHANGED <<mapVars, tokVars, refVars, hostVars>>

\* ------------------------------------------------------------------------
\* account_delete_account
\* ------------------------------------------------------------------------
DeleteFaults == {"none", "rpcAccount", "rpcBeneficiary", "signer", "tx"}

\* getAccountSigner wraps getSignerFromKeystore in try/catch; it can fail
\* only when the keystore holds no key for the account
SignerOk(n, a, fault) == ~(fault = "signer" /\ keystore[<<n, a>>] = NoKey)

\* the three checks of the handler in the order it awaits them
DeleteChecks(n, a, b, fault) ==
    <<[op |-> "getAccount", acct |-> a,
       result |-> getAccount(n, a, fault # "rpcAccount")],
      [op |-> "getAccount", acct |-> b,
       result |-> getAccount(n, b, fault # "rpcBeneficiary")],
      [op |-> "getAccountSigner", acct |-> a,
       result |-> IF SignerOk(n, a, fault) THEN Ok("signer")
                  ELSE Err("Cannot find the account in the keystore")]>>

\* the index of the first check that failed, 0 when none did
FirstFailure(checks) ==
    IF \A k \in 1..Len(checks) : checks[k].result.ok THEN 0
    ELSE CHOOSE k \in 1..Len(checks) :
            /\ ~checks[k].result.ok
            /\ \A j \in 1..(k - 1) : checks[j].result.ok

\* the deleteAccount call inside its try/catch
DeleteCall(a, txOk) ==
    [op |-> "deleteAccount", acct |-> a,
     result |-> IF txOk THEN Ok("FinalExecutionOutcome") ELSE Err("deleteAccount failed")]

\* mutant: the results of the checks are not looked at before deleteAccount
DeleteCallsUnchecked(checks, a, txOk) == checks \o <<DeleteCall(a, txOk)>>

\* the calls one invocation makes: each failed check returns at once, and
\* deleteAccount is called after all three succeeded
DeleteCalls(checks, a, txOk) ==
    IF FirstFailure(checks) = 0 THEN checks \o <<DeleteCall(a, txOk)>>
    ELSE SubSeq(checks, 1, FirstFailure(checks))

DeleteAccount(n, a, b, fault) ==
    LET tool == "account_delete_account"
        txOk == fault # "tx" /\ CanSign(n, a) /\ b # a
        calls == DeleteCalls(DeleteChecks(n, a, b, fault), a, txOk)
        last == calls[Len(calls)]
        called == \E k \in 1..Len(calls) : calls[k].op = "deleteAccount"
    IN  IF called /\ txOk
        THEN /\ resp' = Returned(tool, n, a, "success",
                    <<"Account deletion result: ", "Account deleted: ", a>>, "ok")
                            @@ [calls |-> calls, beneficiary |-> b]
             /\ chain' = [chain EXCEPT ![<<n, a>>] = Absent]
             /\ submitted' = {Tx("deleteAccount", n, a, b)}
             /\ keystore' = keystore
        ELSE /\ resp' = Returned(tool, n, a, "failure",
                    IF called THEN ErrorText("Failed to delete account")
                    ELSE ErrorText(last.result.value),
                    IF called THEN "err" ELSE "none")
                            @@ [calls |-> calls, beneficiary |-> b]
             /\ UNCHANGED <<keystore, chain>>
             /\ submitted' = {}

account_delete_account ==
    /\ \E n \in Nets, a \in Accts, b \in Accts, fault \in DeleteFaults :
          DeleteAccount(n, a, b, fault)
    /\ UNCHANGED <<mapVars, tokVars, refVars, hostVars>>

\* ------------------------------------------------------------------------
\* account_delete_access_keys
\* ------------------------------------------------------------------------
DeleteKeyFaults == {"none", "rpc", "getAccessKeys", "tx"}

DeleteAccessKeys(n, a, pk, fault) ==
    LET tool == "account_delete_access_keys"
        acc == getAccount(n, a, fault # "rpc")
    IN  IF ~acc.ok
        THEN /\ resp' = Returned(tool, n, a, "failure", ErrorText(acc.value), "none")
             /\ UNCHANGED <<keystore, chain>>
             /\ submitted' = {}
        ELSE IF fault = "getAccessKeys"
        THEN /\ resp' = Thrown(tool, n, a)
             /\ UNCHANGED <<keystore, chain>>
             /\ submitted' = {}
        ELSE IF pk \notin chain[<<n, a>>].keys
        THEN /\ resp' = Returned(tool, n, a, "failure",
                    <<"Access key not found in account">>, "none")
             /\ UNCHANGED <<keystore, chain>>
             /\ submitted' = {}
        ELSE IF ~(fault # "tx" /\ CanSign(n, a))
        THEN /\ resp' = Returned(tool, n, a, "failure",
                    ErrorText("Failed to delete access key"), "err")
             /\ UNCHANGED <<keystore, chain>>
             /\ submitted' = {}
        ELSE /\ resp' = Returned(tool, n, a, "success",
                    <<"Access key deleted: ", pk>>, "ok")
             /\ chain' = [chain EXCEPT ![<<n, a>>].keys = @ \ {pk}]
             /\ submitted' = {Tx("deleteKey", n, a, pk)}
             /\ keystore' = keystore

account_delete_access_keys ==
    /\ \E n \in Nets, a \in Accts, pk \in PublicKeys, fault \in DeleteKeyFaults :
          DeleteAccessKeys(n, a, pk, fault)
    /\ UNCHANGED <<mapVars, tokVars, refVars, hostVars>>

\* ------------------------------------------------------------------------
\* ref_finance_execute_swap
\* ------------------------------------------------------------------------
\* the contract ids held by args.tokenIn and args.tokenOut
TokenPairs == {<<"wrap.near", "usdt.near">>, <<"wrap.near", "wrap.near">>}
SwapTypes == {"byPoolId", "bySmartRoute"}

\* args.tokenIn === args.tokenOut compares the two parsed argument objects
\* by reference; they are distinct objects whatever contract ids they hold
SameObject(tokenIn, tokenOut) == FALSE

\* the lookups before the swap, in the order the handler awaits them; each
\* is a Result whose failure ends the handler
Lookups == {"tokenIn", "tokenOut", "metadataIn", "metadataOut"}
PoolLookups == {"pool", "poolTokens", "estimate"}
RouteLookups == {"smartRoute"}

\* where an invocation fails: at a lookup, at the transaction, or nowhere
SwapFaults(swapType) ==
    Lookups \cup (IF swapType = "byPoolId" THEN PoolLookups ELSE RouteLookups)
        \cup {"tx", "none"}

\* the answer of the smart router: no result_data at all (-1), or routes
\* holding 0..MaxRoute pools in total
RouteShapes(swapType, fault) ==
    IF swapType = "bySmartRoute" /\ fault \in {"tx", "none"}
    THEN {-1} \cup (0..MaxRoute)
    ELSE {1}

\* executeRefSwap: every throw (no actions, rejected ft_transfer_call)
\* becomes { ok: false }
executeRefSwap(n, a, nActions, txOk) ==
    IF nActions = 0 THEN Err("No actions to execute")
    ELSE IF txOk /\ CanSign(n, a) THEN Ok("FinalExecutionOutcome")
    ELSE Err("ft_transfer_call failed")

\* the response of the byPoolId branch to the result of executeRefSwap
PoolSwapResponse(tool, n, a, swapResult) ==
    Returned(tool, n, a, IF swapResult.ok THEN "success" ELSE "failure",
             <<"Swap result: ", swapResult.value>>,
             IF swapResult.ok THEN "ok" ELSE "err")

\* the response of the bySmartRoute branch to the result of executeRefSwap
RouteSwapResponse(tool, n, a, swapResult) ==
    IF ~swapResult.ok
    THEN Returned(tool, n, a, "failure", ErrorText(swapResult.value), "err")
    ELSE Returned(tool, n, a, "success", <<"Swap result: ", swapResult.value>>, "ok")

\* the tokenIn / tokenOut arguments, kept with the response
TokenArgs(tokens) == [tokenIn |-> tokens[1], tokenOut |-> tokens[2]]

ExecuteSwap(n, a, tokens, swapType, fault, shape) ==
    LET tool == "ref_finance_execute_swap"
        nActions == IF swapType = "byPoolId" THEN 1 ELSE shape
        swapResult == executeRefSwap(n, a, nActions, fault # "tx")
        sent == IF swapResult.ok THEN {Tx("ft_transfer_call", n, a, swapType)}
                ELSE {}
        failure(e) == Returned(tool, n, a, "failure", ErrorText(e), "none")
        out == IF SameObject(tokens[1], tokens[2])
               THEN <<failure("Token in and token out cannot be the same"), {}>>
               ELSE IF fault \in Lookups
               THEN <<failure(fault), {}>>
               ELSE IF swapType = "byPoolId"
               THEN IF fault \in PoolLookups
                    THEN <<failure(fault), {}>>
                    ELSE <<PoolSwapResponse(tool, n, a, swapResult), sent>>
               ELSE IF fault \in RouteLookups
               THEN <<failure(fault), {}>>
               ELSE IF shape = -1
               THEN <<Thrown(tool, n, a), {}>>
               ELSE <<RouteSwapResponse(tool, n, a, swapResult), sent>>
    IN  /\ resp' = out[1] @@ TokenArgs(tokens)
        /\ submitted' = out[2]
        /\ UNCHANGED <<keystore, chain>>

ref_finance_execute_swap ==
    /\ \E n \in Nets, a \in Accts, tokens \in TokenPairs, swapType \in SwapTypes :
         \E fault \in SwapFaults(swapType) :
           \E shape \in RouteShapes(swapType, fault) :
              ExecuteSwap(n, a, tokens, swapType, fault, shape)
    /\ UNCHANGED <<mapVars, tokVars, refVars, hostVars>>

\* where a ref_finance_get_swap_estimate invocation fails
EstimateFaults(estimateType) ==
    Lookups \cup (IF estimateType = "byPoolId" THEN PoolLookups ELSE RouteLookups)
        \cup {"none"}

\* the ref_finance_get_swap_estimate handler: the same guard and lookups,
\* then the pool estimate or the smart route estimate; nothing is signed
GetSwapEstimate(n, tokens, estimateType, fault) ==
    LET tool == "ref_finance_get_swap_estimate"
        failure(e) == Returned(tool, n, <<>>, "failure", ErrorText(e), "none")
        out == IF SameObject(tokens[1], tokens[2])
               THEN failure("Token in and token out cannot be the same")
               ELSE IF fault # "none"
               THEN failure(fault)
               ELSE IF estimateType = "byPoolId"
               THEN Returned(tool, n, <<>>, "success", <<"Pool info: ">>, "ok")
               ELSE Returned(tool, n, <<>>, "success",
                             <<"Smart route estimate: ">>, "ok")
    IN  /\ resp' = out @@ TokenArgs(tokens)
        /\ submitted' = {}
        /\ UNCHANGED <<keystore, chain>>

ref_finance_get_swap_estimate ==
    /\ \E n \in Nets, tokens \in TokenPairs, estimateType \in SwapTypes :
         \E fault \in EstimateFaults(estimateType) :
            GetSwapEstimate(n, tokens, estimateType, fault)
    /\ UNCHANGED <<mapVars, tokVars, refVars, hostVars>>

\* ------------------------------------------------------------------------
\* Tool invocations, one at a time
\* ------------------------------------------------------------------------
\* an account of the ledger at start: absent, or present with every key
InitialAccounts == {Absent, [exists |-> TRUE, keys |-> PublicKeys]}

\* accounts live on the network their suffix names
Native(e) ==
    LET net == getNetworkFromAccountId(e[2]) IN net.ok /\ net.value = e[1]

InitTools ==
    /\ HostIdle
    /\ keystore = [e \in Entries |-> NoKey]
    /\ chain \in [Entries -> InitialAccounts]
    /\ \A e \in Entries : ~Native(e) => chain[e] = Absent
    /\ submitted = {}
    /\ resp = NoResp
    /\ MapIdle
    /\ TokenIdle
    /\ RefIdle

NextTools ==
    \/ system_import_account
    \/ system_remove_local_account
    \/ account_verify_signature
    \/ account_delete_account
    \/ account_delete_access_keys

SpecTools == InitTools /\ [][NextTools]_vars

\* ------------------------------------------------------------------------
\* The two swap tools on a keystore that already holds imported keys
\* ------------------------------------------------------------------------
InitSwap ==
    /\ HostIdle
    /\ keystore \in [Entries -> KeyPairs \cup {NoKey}]
    /\ chain \in [Entries -> InitialAccounts]
    /\ \A e \in Entries : ~Native(e) => (chain[e] = Absent /\ keystore[e] = NoKey)
    /\ submitted = {}
    /\ resp = NoResp
    /\ MapIdle
    /\ TokenIdle
    /\ RefIdle

NextSwap ==
    \/ ref_finance_execute_swap
    \/ ref_finance_get_swap_estimate

SpecSwap == InitSwap /\ [][NextSwap]_vars

\* ------------------------------------------------------------------------
\* NearToken
\* ------------------------------------------------------------------------
Digits == <<"0", "1", "2", "3", "4", "5", "6", "7", "8", "9">>

\* the value of a decimal digit character
DigitValue(c) == (CHOOSE d \in 1..Len(Digits) : Digits[d] = c) - 1

IsDigits(str) == Len(str) >= 1 /\ \A k \in 1..Len(str) : str[k] \in Range(Digits)

\* the number a string of digits denotes in the given radix
RECURSIVE DigitsValue(_, _)
DigitsValue(str, radix) ==
    IF str = <<>> THEN 0
    ELSE DigitsValue(SubSeq(str, 1, Len(str) - 1), radix) * radix
            + DigitValue(str[Len(str)])

\* String.prototype.trim on the whitespace the model's strings hold
RECURSIVE Trim(_)
Trim(str) ==
    IF str # <<>> /\ Head(str) = " " THEN Trim(Tail(str))
    ELSE IF str # <<>> /\ str[Len(str)] = " " THEN Trim(SubSeq(str, 1, Len(str) - 1))
    ELSE str

\* BigInt(string): trimmed; '' is 0n; a signed decimal literal or an unsigned
\* 0x literal; anything else is a SyntaxError
StringToBigInt(str) ==
    LET t == Trim(str)
    IN  IF t = <<>> THEN Ok(0)
        ELSE IF IsDigits(t) THEN Ok(DigitsValue(t, 10))
        ELSE IF Head(t) = "-" /\ IsDigits(Tail(t)) THEN Ok(0 - DigitsValue(Tail(t), 10))
        ELSE IF Head(t) = "+" /\ IsDigits(Tail(t)) THEN Ok(DigitsValue(Tail(t), 10))
        ELSE IF Len(t) >= 3 /\ t[1] = "0" /\ t[2] = "x" /\ IsDigits(SubSeq(t, 3, Len(t)))
        THEN Ok(DigitsValue(SubSeq(t, 3, Len(t)), 16))
        ELSE Err("SyntaxError")

\* BigInt(value) for a bigint or a string argument
ToBigInt(input) ==
    IF input.kind = "bigint" THEN Ok(input.value) ELSE StringToBigInt(input.chars)

\* bigint.toString(): the decimal string of a non-negative integer
RECURSIVE DecimalString(_)
DecimalString(v) ==
    IF v < 10 THEN <<Digits[v + 1]>>
    ELSE Append(DecimalString(v \div 10), Digits[(v % 10) + 1])

\* mutant: the constructor clamps a negative value to zero
ConstructorClampsToZero(yoctoNear) ==
    Ok([exists |-> TRUE, yoctoNear |-> Max(yoctoNear, 0)])

\* mutant: the constructor also rejects zero
ConstructorRejectsZero(yoctoNear) ==
    IF yoctoNear <= 0 THEN Err("NearToken amount cannot be negative")
    ELSE Ok([exists |-> TRUE, yoctoNear |-> yoctoNear])

\* constructor(yoctoNear: bigint)
NearTokenConstructor(yoctoNear) ==
    IF yoctoNear < 0 THEN Err("NearToken amount cannot be negative")
    ELSE Ok([exists |-> TRUE, yoctoNear |-> yoctoNear])

\* static parse_yocto_near: BigInt() and the constructor inside one try,
\* every throw rethrown as 'Invalid yoctoNEAR amount'
parse_yocto_near(input) ==
    LET n == ToBigInt(input)
        made == NearTokenConstructor(n.value)
    IN  IF n.ok /\ made.ok THEN made ELSE Err("Invalid yoctoNEAR amount")

\* as_yocto_near(): the stored bigint
as_yocto_near(t) == t.yoctoNear

BigIntInput(v) == [kind |-> "bigint", value |-> v]
StringInput(str) == [kind |-> "string", chars |-> str]

\* strings that are no canonical decimal string of a non-negative integer
OddStrings ==
    {<<>>, <<" ", "7">>, <<"7", " ">>, <<"0", "0", "7">>, <<"1", ".", "5">>,
     <<"a">>, <<"-", "1">>, <<"+", "4">>, <<"0", "x", "1", "0">>, <<"1", "e", "3">>,
     <<"-">>, <<"1", "n">>}

YoctoInputs ==
    {BigIntInput(v) : v \in (0 - MaxNegative)..MaxYocto}
        \cup {StringInput(DecimalString(v)) : v \in 0..MaxYocto}
        \cup {StringInput(str) : str \in OddStrings}

ParseYoctoNear ==
    /\ \E input \in YoctoInputs :
         LET r == parse_yocto_near(input)
         IN  /\ tokInput' = input
             /\ token' = IF r.ok THEN r.value ELSE NoToken
             /\ tokResult' = IF r.ok THEN [kind |-> "instance"]
                             ELSE [kind |-> "error", value |-> r.value]
    /\ UNCHANGED <<mapVars, toolVars, refVars, hostVars>>

\* new NearToken(v)
NewInput(v) == [kind |-> "new", value |-> v]

NewNearToken ==
    /\ \E v \in (0 - MaxNegative)..MaxYocto :
         LET r == NearTokenConstructor(v)
         IN  /\ tokInput' = NewInput(v)
             /\ token' = IF r.ok THEN r.value ELSE NoToken
             /\ tokResult' = IF r.ok THEN [kind |-> "instance"]
                             ELSE [kind |-> "error", value |-> r.value]
    /\ UNCHANGED <<mapVars, toolVars, refVars, hostVars>>

\* the argument of parse_near by what Number(near) makes of it: '' / null /
\* undefined, NaN, an infinity, or a finite double of the given sign (sign 0
\* stands for 0 and -0)
NearInput(class, sign) == [kind |-> "near", class |-> class, sign |-> sign]
NearInputs ==
    {NearInput("empty", 0), NearInput("nan", 0)}
        \cup {NearInput("infinite", sg) : sg \in {-1, 1}}
        \cup {NearInput("finite", sg) : sg \in {-1, 0, 1}}

\* static parse_near: nearNum * YOCTO_NEAR_PER_NEAR is a double with the sign
\* of nearNum; whether that double is an integer, and which one, depends on
\* the rounding of the product and is left open (integral, magnitude).
\* BigInt(double) throws a RangeError on NaN, an infinity and a non-integer
\* and is outside any try; 0 and -0 both convert to 0n
parse_near(input, integral, magnitude) ==
    IF input.class = "empty" THEN Err("NEAR amount cannot be empty")
    ELSE IF input.class \in {"nan", "infinite"} THEN Err("RangeError")
    ELSE IF input.sign = 0 THEN parse_yocto_near(BigIntInput(0))
    ELSE IF ~integral THEN Err("RangeError")
    ELSE parse_yocto_near(BigIntInput(input.sign * magnitude))

ParseNear ==
    /\ \E input \in NearInputs, integral \in BOOLEAN, magnitude \in 1..MaxYocto :
         LET r == parse_near(input, integral, magnitude)
         IN  /\ tokInput' = input
             /\ token' = IF r.ok THEN r.value ELSE NoToken
             /\ tokResult' = IF r.ok THEN [kind |-> "instance"]
                             ELSE [kind |-> "error", value |-> r.value]
    /\ UNCHANGED <<mapVars, toolVars, refVars, hostVars>>

AsYoctoNear ==
    /\ token.exists
    /\ tokResult' = [kind |-> "bigint", value |-> as_yocto_near(token)]
    /\ UNCHANGED <<tokInput, token>>
    /\ UNCHANGED <<mapVars, toolVars, refVars, hostVars>>

InitToken ==
    /\ HostIdle
    /\ TokenIdle
    /\ MapIdle
    /\ ToolsIdle
    /\ RefIdle

NextToken ==
    \/ NewNearToken
    \/ ParseYoctoNear
    \/ ParseNear
    \/ AsYoctoNear

SpecToken == InitToken /\ [][NextToken]_vars

\* ------------------------------------------------------------------------
\* Ref Finance helpers: toReadableNumber, refFinanceGetEstimate
\* ------------------------------------------------------------------------
FEE_DIVISOR == 10000

Abs(v) == IF v < 0 THEN 0 - v ELSE v

\* String.prototype.substring(from, to): both indices clamped to the string,
\* swapped when from > to, 0-based and excluding `to`
Substring(str, from, to) ==
    LET a == Max(0, Min(from, Len(str)))
        b == Max(0, Min(to, Len(str)))
    IN  SubSeq(str, Min(a, b) + 1, Max(a, b))

\* String.prototype.padStart(n, c)
PadStart(str, n, c) ==
    IF Len(str) >= n THEN str ELSE [k \in 1..(n - Len(str)) |-> c] \o str

\* the number of '0' characters a string ends with
RECURSIVE TrailingZeros(_)
TrailingZeros(str) ==
    IF str # <<>> /\ str[Len(str)] = "0"
    THEN 1 + TrailingZeros(SubSeq(str, 1, Len(str) - 1))
    ELSE 0

\* .replace(/\.?0+$/, ''): the trailing zeros are cut, and a '.' left in
\* front of them with them
ReplaceTrailingZeros(str) ==
    LET z == TrailingZeros(str)
        cut == SubSeq(str, 1, Len(str) - z)
    IN  IF z = 0 THEN str
        ELSE IF cut # <<>> /\ cut[Len(cut)] = "."
        THEN SubSeq(cut, 1, Len(cut) - 1)
        ELSE cut

\* toReadableNumber(decimals, number = '0')
toReadableNumber(decimals, number) ==
    IF decimals = 0 THEN number
    ELSE LET wholeRaw == Substring(number, 0, Len(number) - decimals)
             wholeStr == IF wholeRaw = <<>> THEN <<"0">> ELSE wholeRaw
             fractionStr ==
                 Substring(PadStart(Substring(number, Len(number) - decimals,
                                              Len(number)),
                                    decimals, "0"),
                           0, decimals)
         IN  ReplaceTrailingZeros(wholeStr \o <<".">> \o fractionStr)

\* bigint / bigint truncates toward zero
BigIntDiv(a, b) ==
    LET quot == Abs(a) \div Abs(b)
    IN  IF (a < 0) # (b < 0) THEN 0 - quot ELSE quot

\* bigint.toString()
BigIntToString(v) ==
    IF v < 0 THEN <<"-">> \o DecimalString(0 - v) ELSE DecimalString(v)

\* pool.supplies[token.id]: a string, or undefined when the pool has no such key
Supply(str) == [present |-> TRUE, chars |-> str]
NoSupply == [present |-> FALSE, chars |-> <<>>]

\* the default parameter number = '0' stands in for undefined
SupplyArgument(supply) == IF supply.present THEN supply.chars ELSE <<"0">>

\* refFinanceGetEstimate: all arithmetic on bigint inside one try
refFinanceGetEstimate(decimalsIn, decimalsOut, supplyIn, supplyOut, fee, amountIn) ==
    LET amountInBigInt == StringToBigInt(amountIn)
        in_balance ==
            StringToBigInt(toReadableNumber(decimalsIn, SupplyArgument(supplyIn)))
        out_balance ==
            StringToBigInt(toReadableNumber(decimalsOut, SupplyArgument(supplyOut)))
        amount_with_fee == amountInBigInt.value * (FEE_DIVISOR - fee)
        numerator == amount_with_fee * out_balance.value
        denominator == FEE_DIVISOR * in_balance.value + amount_with_fee
    IN  IF ~amountInBigInt.ok \/ ~in_balance.ok \/ ~out_balance.ok
        THEN Err("SyntaxError")
        ELSE IF denominator = 0
        THEN Err("Division by zero in estimate calculation")
        ELSE Ok(BigIntToString(BigIntDiv(numerator, denominator)))

\* the inputs of the estimate
AmountStrings == {<<"0">>, <<"1">>, <<"1", "0", "0">>, <<"x">>}
PoolFees == {0, 30, FEE_DIVISOR}
Supplies ==
    {NoSupply}
        \cup {Supply(str) : str \in {<<"0">>, <<"1", "0", "0", "0">>,
                                     <<"2", "0", "0", "0">>,
                                     <<"-", "5">>, <<"1", ".", "5">>}}

GetEstimate ==
    /\ \E decimalsIn \in 0..MaxDecimals, decimalsOut \in 0..MaxDecimals,
          supplyIn \in Supplies, supplyOut \in Supplies,
          fee \in PoolFees, amountIn \in AmountStrings :
         /\ refCall' = [fn |-> "refFinanceGetEstimate",
                        decimalsIn |-> decimalsIn, decimalsOut |-> decimalsOut,
                        supplyIn |-> supplyIn, supplyOut |-> supplyOut,
                        fee |-> fee, amountIn |-> amountIn]
         /\ refResult' = [fn |-> "refFinanceGetEstimate", thrown |-> FALSE,
                          result |-> refFinanceGetEstimate(decimalsIn, decimalsOut,
                                         supplyIn, supplyOut, fee, amountIn)]
    /\ UNCHANGED <<mapVars, toolVars, tokVars, hostVars>>

\* ------------------------------------------------------------------------
\* The functions declared to return Result or Promise<Result>
\* ------------------------------------------------------------------------
ResultFunctions ==
    {"getAccount", "getAccountKeyPair", "getContractMethods", "getContractABI",
     "refFinanceGetEstimate", "refFinanceGetPoolsInfo", "executeRefSwap",
     "searchFungibleTokens", "getFungibleTokenContractInfo",
     "getSmartRouteRefSwapEstimate", "getParsedContractMethod",
     "getNearBlocksJsonSchema", "json_to_zod", "curvePrefixToKeyType"}

\* the functions whose external calls (RPC, fetch, response.json(), file
\* system, WebAssembly.compile) all sit inside a try/catch that returns
\* { ok: false }, or that have no call that throws on a string input;
\* getNearBlocksJsonSchema awaits fetch and response.json() with no try
CatchesFailure == ResultFunctions \ {"getNearBlocksJsonSchema"}

\* what a call yields when its external call succeeds or fails
CallOutcome(fn, externalOk) ==
    IF externalOk THEN [fn |-> fn, thrown |-> FALSE, result |-> Ok("value")]
    ELSE IF fn \in CatchesFailure
    THEN [fn |-> fn, thrown |-> FALSE, result |-> Err("external call failed")]
    ELSE [fn |-> fn, thrown |-> TRUE, result |-> Err("uncaught")]

CallResultFunction ==
    /\ \E fn \in ResultFunctions, externalOk \in BOOLEAN :
         /\ refCall' = [fn |-> fn, externalOk |-> externalOk]
         /\ refResult' = CallOutcome(fn, externalOk)
    /\ UNCHANGED <<mapVars, toolVars, tokVars, hostVars>>

\* ------------------------------------------------------------------------
\* parsePool
\* ------------------------------------------------------------------------
\* acc[key] = amount on a Record<string, string>
SetProperty(acc, key, amount) ==
    [x \in (DOMAIN acc) \cup {key} |-> IF x = key THEN amount ELSE acc[x]]

\* pool.amounts.reduce(..., {}): the accumulator after the first k amounts;
\* token_account_ids[i] is undefined past the end of the id list
RECURSIVE ReduceAmounts(_, _, _)
ReduceAmounts(token_account_ids, amounts, k) ==
    IF k = 0 THEN [x \in {} |-> <<>>]
    ELSE LET acc == ReduceAmounts(token_account_ids, amounts, k - 1)
         IN  IF k <= Len(token_account_ids)
             THEN SetProperty(acc, token_account_ids[k], amounts[k])
             ELSE acc

\* parsePool: tokenIds and supplies of the parsed pool
parsePool(token_account_ids, amounts) ==
    [tokenIds |-> token_account_ids,
     supplies |-> ReduceAmounts(token_account_ids, amounts, Len(amounts))]

\* wire-format records: id lists and amount lists of independent lengths
TokenIds == {"wrap.near", "usdt.near"}
WireAmounts == {<<"1">>, <<"2">>}
TokenIdLists == UNION {[1..n -> TokenIds] : n \in 0..MaxTokens}
AmountLists == UNION {[1..n -> WireAmounts] : n \in 0..(MaxTokens + 1)}

ParsePool ==
    /\ \E token_account_ids \in TokenIdLists, amounts \in AmountLists :
         /\ refCall' = [fn |-> "parsePool",
                        token_account_ids |-> token_account_ids,
                        amounts |-> amounts]
         /\ refResult' = [fn |-> "parsePool", thrown |-> FALSE,
                          result |-> parsePool(token_account_ids, amounts)]
    /\ UNCHANGED <<mapVars, toolVars, tokVars, hostVars>>

InitRef ==
    /\ HostIdle
    /\ RefIdle
    /\ MapIdle
    /\ ToolsIdle
    /\ TokenIdle

NextRef ==
    \/ GetEstimate
    \/ CallResultFunction
    \/ ParsePool

SpecRef == InitRef /\ [][NextRef]_vars

\* ------------------------------------------------------------------------
\* ref_finance_execute_swap, the byPoolId branch: the amounts
\* ------------------------------------------------------------------------
\* args.amount: a number with at most one decimal digit, held as its tenfold
\* (15 is 1.5), or a bigint
NumberAmount(tenfold) == [kind |-> "number", tenfold |-> tenfold, value |-> 0]
BigIntAmount(value) == [kind |-> "bigint", tenfold |-> 0, value |-> value]

SwapAmounts ==
    {NumberAmount(t) : t \in {0, 5, 10, 15, 20}}
        \cup {BigIntAmount(v) : v \in {0, 1, 20, 100}}

\* 10 ** decimals
RECURSIVE Pow10(_)
Pow10(d) == IF d = 0 THEN 1 ELSE 10 * Pow10(d - 1)

\* Number.prototype.toString() / BigInt.prototype.toString()
AmountToString(amount) ==
    IF amount.kind = "bigint" THEN BigIntToString(amount.value)
    ELSE IF amount.tenfold % 10 = 0 THEN DecimalString(amount.tenfold \div 10)
    ELSE DecimalString(amount.tenfold \div 10) \o <<".">>
             \o DecimalString(amount.tenfold % 10)

\* typeof args.amount === 'number'
\*    ? BigInt(Math.floor(args.amount * 10 ** decimals)) : args.amount
AmountInDecimals(amount, decimals) ==
    IF amount.kind = "number" THEN (amount.tenfold * Pow10(decimals)) \div 10
    ELSE amount.value

\* the byPoolId branch after the pool was found to hold both tokens: the
\* estimate, then executeRefSwap with the transfer amount and the action
PoolSwapAmounts(amount, decimalsIn, decimalsOut, supplyIn, supplyOut, fee) ==
    LET amountInDecimals == AmountInDecimals(amount, decimalsIn)
        poolEstimate == refFinanceGetEstimate(decimalsIn, decimalsOut,
                            supplyIn, supplyOut, fee, AmountToString(amount))
    IN  IF ~poolEstimate.ok
        THEN [fn |-> "byPoolId", thrown |-> FALSE, swapped |-> FALSE,
              amount |-> <<>>, min_amount_out |-> <<>>]
        ELSE [fn |-> "byPoolId", thrown |-> FALSE, swapped |-> TRUE,
              amount |-> BigIntToString(amountInDecimals),
              min_amount_out |-> poolEstimate.value]

PoolSwap ==
    /\ refCall.fn = "none"
    /\ \E amount \in SwapAmounts,
          decimalsIn \in 0..MaxDecimals, decimalsOut \in 0..MaxDecimals,
          supplyIn \in Supplies, supplyOut \in Supplies, fee \in PoolFees :
         /\ refCall' = [fn |-> "byPoolId", amount |-> amount,
                        decimalsIn |-> decimalsIn, decimalsOut |-> decimalsOut,
                        supplyIn |-> supplyIn, supplyOut |-> supplyOut,
                        fee |-> fee]
         /\ refResult' = PoolSwapAmounts(amount, decimalsIn, decimalsOut,
                                         supplyIn, supplyOut, fee)
    /\ UNCHANGED <<mapVars, toolVars, tokVars, hostVars>>

InitAmount ==
    /\ HostIdle
    /\ RefIdle
    /\ MapIdle
    /\ ToolsIdle
    /\ TokenIdle

NextAmount == PoolSwap

SpecAmount == InitAmount /\ [][NextAmount]_vars

\* ------------------------------------------------------------------------
\* mapSemaphore
\* ------------------------------------------------------------------------
InitMap ==
    /\ HostIdle
    /\ \E m \in 0..MaxItems : items = [k \in 1..m |-> k]
    /\ concurrency \in 1..MaxConc
    /\ pc = "loop"
    /\ nextItem = 1
    /\ q = [i \in 1..Len(items) |-> "unstarted"]
    /\ p = [i \in 1..Len(items) |-> "none"]
    /\ promises = <<>>
    /\ results = <<>>
    /\ micro = <<>>
    /\ awaited = NoAwait
    /\ fulfilOrder = <<>>
    /\ ToolsIdle
    /\ TokenIdle
    /\ RefIdle

\* Promise.race(promises) followed by await
PromiseRace(ps) ==
    [kind |-> "race", state |-> "pending", members |-> Range(ps), remaining |-> 0]

\* Promise.all(promises): fulfilled at once for an empty array
PromiseAll(ps) ==
    [kind |-> "all",
     state |-> IF Len(ps) = 0 THEN "fulfilled" ELSE "pending",
     members |-> Range(ps), remaining |-> Len(ps)]

\* mutant: the function waits one slot before the limit is reached
MustWaitEarly(ps, n) == Len(ps) >= n - 1

\* mutant: the array is allowed to grow one past the limit before waiting
MustWaitOffByOne(ps, n) == Len(ps) > n

\* the guard of line 25
MustWait(ps, n) == Len(ps) >= n

\* mutant: items keep being started after the function has rejected
LoopIterationAfterReject ==
    /\ pc \in {"loop", "rejected"}
    /\ nextItem <= Len(items)
    /\ LET i == nextItem
           ps == Append(promises, i)
       IN  /\ q' = [q EXCEPT ![i] = "pending"]
           /\ p' = [p EXCEPT ![i] = "pending"]
           /\ promises' = ps
           /\ nextItem' = i + 1
           /\ pc' = IF pc = "rejected" THEN "rejected"
                    ELSE IF Len(ps) >= concurrency THEN "awaitRace" ELSE "loop"
           /\ awaited' = IF pc = "loop" /\ Len(ps) >= concurrency
                         THEN PromiseRace(ps) ELSE awaited
    /\ UNCHANGED <<toolVars, tokVars, refVars, hostVars>>
    /\ UNCHANGED <<items, concurrency, results, micro, fulfilOrder>>

\* One iteration of the for-of loop: f(item) is called, the chained promise
\* is pushed and, when the array is full, the function awaits the race.
LoopIteration ==
    /\ pc = "loop"
    /\ nextItem <= Len(items)
    /\ LET i == nextItem
           ps == Append(promises, i)
       IN  /\ q' = [q EXCEPT ![i] = "pending"]
           /\ p' = [p EXCEPT ![i] = "pending"]
           /\ promises' = ps
           /\ nextItem' = i + 1
           /\ IF MustWait(ps, concurrency)
              THEN /\ pc' = "awaitRace"
                   /\ awaited' = PromiseRace(ps)
              ELSE /\ pc' = "loop"
                   /\ awaited' = awaited
    /\ UNCHANGED <<toolVars, tokVars, refVars, hostVars>>
    /\ UNCHANGED <<items, concurrency, results, micro, fulfilOrder>>

\* mutant: `return results` without the final await Promise.all(promises)
LoopExitNoAwait ==
    /\ pc = "loop"
    /\ nextItem > Len(items)
    /\ pc' = "returned"
    /\ UNCHANGED <<toolVars, tokVars, refVars, hostVars>>
    /\ UNCHANGED <<items, concurrency, nextItem, q, p, promises, results,
                   micro, awaited, fulfilOrder>>

\* mutant: the final wait is a race over the promises still in the array,
\* which never settles when the array is empty
LoopExitAwaitsRace ==
    /\ pc = "loop"
    /\ nextItem > Len(items)
    /\ pc' = "awaitAll"
    /\ awaited' = PromiseRace(promises)
    /\ UNCHANGED <<toolVars, tokVars, refVars, hostVars>>
    /\ UNCHANGED <<items, concurrency, nextItem, q, p, promises, results,
                   micro, fulfilOrder>>

\* After the loop: await Promise.all(promises)
LoopExit ==
    /\ pc = "loop"
    /\ nextItem > Len(items)
    /\ pc' = "awaitAll"
    /\ awaited' = PromiseAll(promises)
    /\ micro' = IF Len(promises) = 0 THEN Append(micro, Job("wake", 0)) ELSE micro
    /\ UNCHANGED <<toolVars, tokVars, refVars, hostVars>>
    /\ UNCHANGED <<items, concurrency, nextItem, q, p, promises, results,
                   fulfilOrder>>

\* The promise returned by f(items[i]) settles (the transform completes)
Settle(i, outcome) ==
    /\ q[i] = "pending"
    /\ q' = [q EXCEPT ![i] = outcome]
    /\ micro' = Append(micro, Job("then", i))
    /\ fulfilOrder' = IF outcome = "fulfilled" THEN Append(fulfilOrder, i)
                      ELSE fulfilOrder
    /\ UNCHANGED <<toolVars, tokVars, refVars, hostVars>>
    /\ UNCHANGED <<items, concurrency, pc, nextItem, p, promises, results,
                   awaited>>

\* The event loop runs the job at the head of the queue; no job runs while
\* mapSemaphore itself is executing synchronously (pc = "loop").
HeadIs(kind) == pc # "loop" /\ micro # <<>> /\ Head(micro).kind = kind

\* mutant: results.unshift(v) in place of results.push(v)
ThenUnshift(res, i) == <<items[i]>> \o res

\* .then((v) => { results.push(v) }): skipped when the transform rejected
ThenPush(res, i) == Append(res, items[i])

ThenJob ==
    /\ HeadIs("then")
    /\ LET i == Head(micro).item IN
       /\ results' = IF q[i] = "fulfilled" THEN ThenPush(results, i) ELSE results
       /\ micro' = Append(Tail(micro), Job("finally", i))
       /\ UNCHANGED <<toolVars, tokVars, refVars, hostVars>>
       /\ UNCHANGED <<items, concurrency, pc, nextItem, q, p, promises, awaited,
                      fulfilOrder>>

\* .finally(() => { promises.splice(promises.indexOf(p), 1) })
FinallyJob ==
    /\ HeadIs("finally")
    /\ LET i == Head(micro).item IN
       /\ promises' = Splice1(promises, IndexOf(promises, i))
       /\ micro' = Tail(micro) \o <<Job("valueThunk", i), Job("resolveThenable", i)>>
       /\ UNCHANGED <<toolVars, tokVars, refVars, hostVars>>
       /\ UNCHANGED <<items, concurrency, pc, nextItem, q, p, results, awaited,
                      fulfilOrder>>

\* the two ticks Promise.prototype.finally takes to hand the settlement on
ValueThunkJob ==
    /\ HeadIs("valueThunk")
    /\ LET i == Head(micro).item IN
       /\ micro' = Tail(micro)
       /\ UNCHANGED <<toolVars, tokVars, refVars, hostVars>>
       /\ UNCHANGED <<items, concurrency, pc, nextItem, q, p, promises, results,
                      awaited, fulfilOrder>>

ResolveThenableJob ==
    /\ HeadIs("resolveThenable")
    /\ LET i == Head(micro).item IN
       /\ micro' = Append(Tail(micro), Job("settleP", i))
       /\ UNCHANGED <<toolVars, tokVars, refVars, hostVars>>
       /\ UNCHANGED <<items, concurrency, pc, nextItem, q, p, promises, results,
                      awaited, fulfilOrder>>

\* the chained promise p settles; the awaited race/all reacts if it holds p
SettlePJob ==
    /\ HeadIs("settleP")
    /\ LET i == Head(micro).item IN
       /\ p' = [p EXCEPT ![i] = q[i]]
       /\ micro' = IF awaited.state = "pending" /\ i \in awaited.members
                   THEN Append(Tail(micro), Job("react", i))
                   ELSE Tail(micro)
       /\ UNCHANGED <<toolVars, tokVars, refVars, hostVars>>
       /\ UNCHANGED <<items, concurrency, pc, nextItem, q, promises, results,
                      awaited, fulfilOrder>>

\* reaction of Promise.race / Promise.all to the settlement of a member
ReactJob ==
    /\ HeadIs("react")
    /\ LET i == Head(micro).item IN
       /\ IF awaited.state # "pending"
          THEN /\ awaited' = awaited
               /\ micro' = Tail(micro)
          ELSE IF p[i] = "rejected"
          THEN /\ awaited' = [awaited EXCEPT !.state = "rejected"]
               /\ micro' = Append(Tail(micro), Job("wake", 0))
          ELSE IF awaited.kind = "race"
          THEN /\ awaited' = [awaited EXCEPT !.state = "fulfilled"]
               /\ micro' = Append(Tail(micro), Job("wake", 0))
          ELSE IF awaited.remaining = 1
          THEN /\ awaited' = [awaited EXCEPT !.state = "fulfilled", !.remaining = 0]
               /\ micro' = Append(Tail(micro), Job("wake", 0))
          ELSE /\ awaited' = [awaited EXCEPT !.remaining = @ - 1]
               /\ micro' = Tail(micro)
       /\ UNCHANGED <<toolVars, tokVars, refVars, hostVars>>
       /\ UNCHANGED <<items, concurrency, pc, nextItem, q, p, promises, results,
                      fulfilOrder>>

\* the continuation of `await`: resume the loop, return results, or throw
WakeJob ==
    /\ HeadIs("wake")
    /\ pc' = IF awaited.state = "rejected" THEN "rejected"
             ELSE IF pc = "awaitRace" THEN "loop"
             ELSE "returned"
    /\ micro' = Tail(micro)
    /\ UNCHANGED <<toolVars, tokVars, refVars, hostVars>>
    /\ UNCHANGED <<items, concurrency, nextItem, q, p, promises, results,
                   awaited, fulfilOrder>>

TransformFulfils == \E i \in 1..Len(items) : Settle(i, "fulfilled")
TransformRejects == \E i \in 1..Len(items) : Settle(i, "rejected")

NextMap ==
    \/ LoopIteration
    \/ LoopExit
    \/ TransformFulfils
    \/ TransformRejects
    \/ ThenJob
    \/ FinallyJob
    \/ ValueThunkJob
    \/ ResolveThenableJob
    \/ SettlePJob
    \/ ReactJob
    \/ WakeJob

SpecMap == InitMap /\ [][NextMap]_vars

\* the transform of item i settles, one way or the other
SettleAny(i) ==
    /\ i \in 1..Len(items)
    /\ (Settle(i, "fulfilled") \/ Settle(i, "rejected"))

\* Scheduling: the synchronous part of mapSemaphore runs to its next await,
\* the event loop runs every queued job, and every started transform
\* eventually settles (the hypothesis of termination).
FairMap ==
    /\ WF_vars(LoopIteration)
    /\ WF_vars(LoopExit)
    /\ WF_vars(ThenJob)
    /\ WF_vars(FinallyJob)
    /\ WF_vars(ValueThunkJob)
    /\ WF_vars(ResolveThenableJob)
    /\ WF_vars(SettlePJob)
    /\ WF_vars(ReactJob)
    /\ WF_vars(WakeJob)
    /\ \A i \in 1..MaxItems : WF_vars(SettleAny(i))

SpecMapFair == InitMap /\ [][NextMap]_vars /\ FairMap

\* ------------------------------------------------------------------------
\* refFinanceGetPoolsInfo
\* ------------------------------------------------------------------------
\* the concurrency refFinanceGetPoolsInfo passes to mapSemaphore
PoolsConcurrency == 4

\* const perPage = 1024
PerPage == 1024

\* Math.ceil(n / d) for n >= 0, d > 0
Ceil(n, d) == (n + d - 1) \div d

\* Array.from({ length: Math.ceil(numberOfPools / perPage) }, (_, i) => i * perPage)
PageOffsets(numberOfPools) ==
    [i \in 1..Ceil(numberOfPools, PerPage) |-> (i - 1) * PerPage]

\* the contract's get_pools view: the pools at the on-chain indices
\* from_index .. from_index + limit - 1 that exist
get_pools(numberOfPools, from_index, limit) ==
    [k \in 1..Max(0, Min(limit, numberOfPools - from_index)) |->
        [onChain |-> from_index + k - 1]]

\* parsePool(rawPool, id): the id argument, a number here, becomes Pool.id
parsePoolWithId(rawPool, id) == [id |-> id, onChain |-> rawPool.onChain]

\* mutant: parsePool(rawPool, i), the position in the page without its offset
PagePoolsWithoutOffset(numberOfPools, index) ==
    LET contractResult == get_pools(numberOfPools, index, PerPage)
    IN  [i \in 1..Len(contractResult) |-> parsePoolWithId(contractResult[i], i - 1)]

\* the transform: contractResult.map((rawPool, i) => parsePool(rawPool, i + index))
PagePools(numberOfPools, index) ==
    LET contractResult == get_pools(numberOfPools, index, PerPage)
    IN  [i \in 1..Len(contractResult) |->
            parsePoolWithId(contractResult[i], (i - 1) + index)]

\* Array.prototype.flat() on the pages in the order mapSemaphore returned them
RECURSIVE Flat(_, _)
Flat(numberOfPools, indices) ==
    IF indices = <<>> THEN <<>>
    ELSE PagePools(numberOfPools, Head(indices)) \o Flat(numberOfPools, Tail(indices))

\* pool counts that give 0 .. MaxPages pages, a partial last page among them
PoolCounts ==
    {0, 1} \cup {k * PerPage : k \in 1..(MaxPages - 1)}
           \cup {(MaxPages - 1) * PerPage + 1}

\* the call: get_number_of_pools, then mapSemaphore over the page offsets;
\* a failure of the first view call is caught at once
GetPoolsInfoCall ==
    /\ pc = "idle"
    /\ refCall.fn = "none"
    /\ \E numberOfPools \in PoolCounts, numberOfPoolsOk \in BOOLEAN :
         /\ refCall' = [fn |-> "refFinanceGetPoolsInfo",
                        numberOfPools |-> numberOfPools]
         /\ IF numberOfPoolsOk
            THEN /\ items' = PageOffsets(numberOfPools)
                 /\ concurrency' = PoolsConcurrency
                 /\ pc' = "loop"
                 /\ q' = [i \in 1..Len(PageOffsets(numberOfPools)) |-> "unstarted"]
                 /\ p' = [i \in 1..Len(PageOffsets(numberOfPools)) |-> "none"]
                 /\ refResult' = refResult
            ELSE /\ refResult' = [fn |-> "refFinanceGetPoolsInfo", thrown |-> FALSE,
                                  result |-> Err("get_number_of_pools failed")]
                 /\ UNCHANGED <<items, concurrency, pc, q, p>>
    /\ UNCHANGED <<nextItem, promises, results, micro, awaited, fulfilOrder>>
    /\ UNCHANGED <<toolVars, tokVars, hostVars>>

\* the end of the try block: the pages mapSemaphore returned, flattened, as
\* { ok: true }, or its rejection caught as { ok: false }
GetPoolsInfoReturn ==
    /\ pc \in {"returned", "rejected"}
    /\ refCall.fn = "refFinanceGetPoolsInfo"
    /\ refResult.fn = "none"
    /\ refResult' = [fn |-> "refFinanceGetPoolsInfo", thrown |-> FALSE,
                     result |-> IF pc = "returned"
                                THEN Ok(Flat(refCall.numberOfPools, results))
                                ELSE Err("get_pools failed")]
    /\ UNCHANGED <<mapVars, toolVars, tokVars, refCall, hostVars>>

InitPools ==
    /\ HostIdle
    /\ MapIdle
    /\ ToolsIdle
    /\ TokenIdle
    /\ RefIdle

NextPools ==
    \/ GetPoolsInfoCall
    \/ GetPoolsInfoReturn
    \/ NextMap

SpecPools == InitPools /\ [][NextPools]_vars

\* ------------------------------------------------------------------------
\* search_near_fungible_tokens
\* ------------------------------------------------------------------------
\* the concurrency the handler passes to mapSemaphore
SearchConcurrency == 4

\* an entry of https://api.ref.finance/list-token with its key as `contract`
FungibleTokenContract(contractId) ==
    [contract |-> contractId, spec |-> "ft-1.0.0", decimals |-> 18]

\* Object.entries(data): n entries under distinct contract ids 1..n
ListToken(n) == [k \in 1..n |-> k]

\* Array.prototype.filter
RECURSIVE Filter(_, _)
Filter(seq, keep) ==
    IF seq = <<>> THEN <<>>
    ELSE IF Head(seq) \in keep THEN <<Head(seq)>> \o Filter(Tail(seq), keep)
    ELSE Filter(Tail(seq), keep)

\* Array.prototype.slice(0, end) for end >= 0
Slice0(seq, end) == SubSeq(seq, 1, Min(end, Len(seq)))

\* searchFungibleTokens: `matching` are the ids the three regular
\* expressions accept; a fetch failure is caught
searchFungibleTokens(n, matching, maxNumberOfResults, listOk) ==
    IF ~listOk THEN Err("fetch failed")
    ELSE IF n = 0 THEN Err("No tokens found")
    ELSE LET sliced == Slice0(Filter(ListToken(n), matching), maxNumberOfResults)
             filteredTokens == [k \in 1..Len(sliced) |-> FungibleTokenContract(sliced[k])]
         IN  IF Len(filteredTokens) = 0 THEN Err("No matching tokens found")
             ELSE Ok(filteredTokens)

\* data.contracts of https://api.nearblocks.io/v1/fts/<contractId>, mapped to
\* the six fields kept; the array is held in a record so that it compares
\* with a listing record
ContractInfo(contractId) ==
    [array |-> <<[contract |-> contractId, description |-> "detailed",
                  website |-> "w"]>>]

\* getFungibleTokenContractInfo: every failure is caught as { ok: false }
getFungibleTokenContractInfo(contractId, fetchOk) ==
    IF contractId \in fetchOk THEN Ok(ContractInfo(contractId))
    ELSE Err("No fungible token contracts found")

\* the transform: [contract.contract, contract, await getFungibleTokenContractInfo(..)]
SearchTransform(contract, fetchOk) ==
    <<contract.contract, contract,
      getFungibleTokenContractInfo(contract.contract, fetchOk)>>

\* mutant: the detailed info is used whether or not its fetch succeeded
ContractInfoEntryAlwaysDetailed(triple) == ContractInfo(triple[1])

\* the callback of contractInfoResults.map
ContractInfoEntry(triple) ==
    IF triple[3].ok THEN triple[3].value ELSE triple[2]

SearchTool == "search_near_fungible_tokens"

\* the handler up to its await of mapSemaphore
SearchCall ==
    /\ pc = "idle"
    /\ refCall.fn = "none"
    /\ \E n \in 0..MaxListing, maxNumberOfResults \in 1..MaxResults,
          listOk \in BOOLEAN :
        \E matching \in SUBSET (1..n) :
          LET tokenContractsSearchResult ==
                  searchFungibleTokens(n, matching, maxNumberOfResults, listOk)
          IN  IF ~tokenContractsSearchResult.ok
              THEN /\ refCall' = [fn |-> SearchTool, tokenContracts |-> <<>>,
                                  maxNumberOfResults |-> maxNumberOfResults,
                                  fetchOk |-> {}]
                   /\ resp' = Returned(SearchTool, "mainnet", <<>>, "failure",
                                  ErrorText(tokenContractsSearchResult.value), "none")
                   /\ UNCHANGED <<items, concurrency, pc, q, p>>
              ELSE LET tokenContracts == tokenContractsSearchResult.value IN
                   \E fetchOk \in SUBSET {tokenContracts[k].contract :
                                            k \in 1..Len(tokenContracts)} :
                     /\ refCall' = [fn |-> SearchTool,
                                    tokenContracts |-> tokenContracts,
                                    maxNumberOfResults |-> maxNumberOfResults,
                                    fetchOk |-> fetchOk]
                     /\ items' = tokenContracts
                     /\ concurrency' = SearchConcurrency
                     /\ pc' = "loop"
                     /\ q' = [i \in 1..Len(tokenContracts) |-> "unstarted"]
                     /\ p' = [i \in 1..Len(tokenContracts) |-> "none"]
                     /\ resp' = resp
    /\ UNCHANGED <<nextItem, promises, results, micro, awaited, fulfilOrder>>
    /\ UNCHANGED <<keystore, chain, submitted, tokVars, refResult, hostVars>>

\* the handler after mapSemaphore: the response built from its results
SearchReturn ==
    /\ pc \in {"returned", "rejected"}
    /\ refCall.fn = SearchTool
    /\ resp.tool = "none"
    /\ resp' = IF pc = "rejected" THEN Thrown(SearchTool, "mainnet", <<>>)
               ELSE LET contractInfoResults ==
                            [k \in 1..Len(results) |->
                                SearchTransform(results[k], refCall.fetchOk)]
                    IN  Returned(SearchTool, "mainnet", <<>>, "success",
                            [k \in 1..Len(contractInfoResults) |->
                                ContractInfoEntry(contractInfoResults[k])],
                            "none")
    /\ UNCHANGED <<mapVars, keystore, chain, submitted, tokVars, refVars, hostVars>>

InitSearch ==
    /\ HostIdle
    /\ MapIdle
    /\ ToolsIdle
    /\ TokenIdle
    /\ RefIdle

\* the transform has no path that rejects, so TransformRejects is no step
NextSearch ==
    \/ SearchCall
    \/ SearchReturn
    \/ LoopIteration
    \/ LoopExit
    \/ TransformFulfils
    \/ ThenJob
    \/ FinallyJob
    \/ ValueThunkJob
    \/ ResolveThenableJob
    \/ SettlePJob
    \/ ReactJob
    \/ WakeJob

SpecSearch == InitSearch /\ [][NextSearch]_vars

\* ------------------------------------------------------------------------
\* account_create_account, invocations interleaved at their awaits
\* ------------------------------------------------------------------------
\* KeyPair.fromRandom('ed25519'): a key pair no other call produces
RandomKeyPairs == <<"r1", "r2", "r3", "r4">>
KeyPairFromRandom(i) == RandomKeyPairs[i]

NoInvocation == [pc |-> "idle"]

CreateFaults == {"none", "signer", "tx"}

\* the handler up to `await keystore.setKey(..)`: the signer is looked up,
\* then the new key pair is generated; newAccountId is the argument given
CreateStart(i) ==
    /\ invocations[i].pc = "idle"
    /\ \E n \in Nets, signerAccountId \in Accts, newAccountId \in Accts,
          fault \in CreateFaults :
         LET call == [net |-> n, signerAccountId |-> signerAccountId,
                      newAccountId |-> newAccountId,
                      keyPair |-> KeyPairFromRandom(i),
                      fault |-> fault, before |-> keystore]
         IN  invocations' =
                 [invocations EXCEPT ![i] =
                     IF SignerOk(n, signerAccountId, fault)
                     THEN call @@ [pc |-> "setKey", text |-> <<>>]
                     ELSE call @@ [pc |-> "returned",
                                   text |-> ErrorText("Cannot find the account in the keystore")]]
    /\ UNCHANGED <<mapVars, toolVars, tokVars, refVars>>
    /\ UNCHANGED <<server, transports, connections, posted>>

\* await keystore.setKey(args.networkId, newAccountId, keyPair)
CreateSetKey(i) ==
    /\ invocations[i].pc = "setKey"
    /\ LET inv == invocations[i] IN
       /\ keystore' = SetKey(keystore, inv.net, inv.newAccountId, inv.keyPair)
       /\ invocations' = [invocations EXCEPT ![i].pc = "createTopLevelAccount"]
    /\ UNCHANGED <<mapVars, chain, submitted, resp, tokVars, refVars>>
    /\ UNCHANGED <<server, transports, connections, posted>>

\* createTopLevelAccount inside try/catch: the registrar creates the account
\* with the new public key unless the id is taken or the signer's
\* transaction is not accepted
CreateTopLevelAccount(i) ==
    /\ invocations[i].pc = "createTopLevelAccount"
    /\ LET inv == invocations[i]
           e == <<inv.net, inv.newAccountId>>
           ok == /\ inv.fault # "tx"
                 /\ CanSign(inv.net, inv.signerAccountId)
                 /\ ~chain[e].exists
       IN  IF ok
           THEN /\ chain' = [chain EXCEPT ![e] =
                                [exists |-> TRUE, keys |-> {PublicKeyOf(inv.keyPair)}]]
                /\ submitted' = submitted \cup
                       {Tx("create_account", inv.net, inv.signerAccountId,
                           inv.newAccountId)}
                /\ invocations' =
                       [invocations EXCEPT ![i].pc = "returned",
                           ![i].text = <<"Account creation result: ",
                                         "Account created: ", inv.newAccountId>>]
           ELSE /\ invocations' = [invocations EXCEPT ![i].pc = "removeKey"]
                /\ UNCHANGED <<chain, submitted>>
    /\ UNCHANGED <<mapVars, keystore, resp, tokVars, refVars>>
    /\ UNCHANGED <<server, transports, connections, posted>>

\* if (!createAccountResult.ok) { await keystore.removeKey(..); return Error }
CreateRemoveKey(i) ==
    /\ invocations[i].pc = "removeKey"
    /\ LET inv == invocations[i] IN
       /\ keystore' = RemoveKey(keystore, inv.net, inv.newAccountId)
       /\ invocations' =
              [invocations EXCEPT ![i].pc = "returned",
                  ![i].text = ErrorText("Failed to create account")]
    /\ UNCHANGED <<mapVars, chain, submitted, resp, tokVars, refVars>>
    /\ UNCHANGED <<server, transports, connections, posted>>

\* keys already imported before the server handles the invocations
ImportedKeyPairs == {NoKey, "k1"}

InitCreate ==
    /\ keystore \in [Entries -> ImportedKeyPairs]
    /\ chain \in [Entries -> InitialAccounts]
    /\ \A e \in Entries : ~Native(e) => (chain[e] = Absent /\ keystore[e] = NoKey)
    /\ submitted = {}
    /\ resp = NoResp
    /\ invocations = [i \in 1..MaxInvocations |-> NoInvocation]
    /\ server = [started |-> FALSE]
    /\ transports = {}
    /\ connections = <<>>
    /\ posted = [status |-> 0]
    /\ MapIdle
    /\ TokenIdle
    /\ RefIdle

account_create_account ==
    \E i \in 1..MaxInvocations :
        \/ CreateStart(i)
        \/ CreateSetKey(i)
        \/ CreateTopLevelAccount(i)
        \/ CreateRemoveKey(i)

NextCreate == account_create_account

SpecCreate == InitCreate /\ [][NextCreate]_vars

\* ------------------------------------------------------------------------
\* The run command and the SSE server of runMcpServer
\* ------------------------------------------------------------------------
\* a string that may be absent (undefined): a flag, an environment variable,
\* a query parameter
Undefined == [present |-> FALSE, value |-> <<>>]
Str(v) == [present |-> TRUE, value |-> v]

\* JavaScript truthiness of string | undefined: '' and undefined are falsy
Truthy(x) == x.present /\ x.value # <<>>

\* path.join(homedir(), '.near-keystore')
DefaultKeystore == <<"~", ".near-keystore">>

KeyDirArgs == {Undefined, Str(<<"custom-near-keystore">>)}
EnvValues == {Undefined, Str(<<>>), Str(<<"root", ".near-keystore">>)}
DefaultPort == 3001
PortArgs == {0, 4000}

\* this.parse(Run): a flag that is not on the command line has its default
ParsedKeyDir(keyDirArg) ==
    IF keyDirArg.present THEN keyDirArg ELSE Str(DefaultKeystore)

\* the keyDir closure of Run.run()
KeyDir(flag, envKeyDir) ==
    IF Truthy(flag) THEN flag.value
    ELSE IF Truthy(envKeyDir) THEN envKeyDir.value
    ELSE DefaultKeystore

\* runMcpServer: keystorePath || path.join(homedir(), '.near-keystore')
ActualKeystorePath(keystorePath) ==
    IF keystorePath # <<>> THEN keystorePath ELSE DefaultKeystore

\* a connection slot: the GET /sse request and the mcp.connect it awaits
NoConnection == [state |-> "none", mcp |-> "none", status |-> 0]

\* `near-mcp run`: the flags are parsed and runMcpServer is called; 0 stands
\* for a --port flag that was not given
RunCommand ==
    /\ ~server.started
    /\ invocations = <<>>
    /\ \E keyDirArg \in KeyDirArgs, envKeyDir \in EnvValues,
          remote \in BOOLEAN, portArg \in PortArgs :
         LET keyDir == KeyDir(ParsedKeyDir(keyDirArg), envKeyDir) IN
         /\ server' = [started |-> TRUE,
                       keyDirArg |-> keyDirArg, envKeyDir |-> envKeyDir,
                       keyDir |-> keyDir,
                       keystorePath |-> ActualKeystorePath(keyDir),
                       remote |-> remote,
                       port |-> IF portArg = 0 THEN DefaultPort ELSE portArg]
         /\ connections' = [k \in 1..MaxSessions |-> NoConnection]
    /\ UNCHANGED <<mapVars, toolVars, tokVars, refVars>>
    /\ UNCHANGED <<invocations, transports, posted>>

\* transport.sessionId: a random UUID, one per transport
SessionId(k) == <<"uuid", k>>
UnknownSessionId == <<"uuid", 0>>
Transport(k) == [sessionId |-> SessionId(k), res |-> k]
NoTransport == [sessionId |-> <<>>, res |-> 0]

\* Map.prototype.set / delete / get on a set of <<key, value>> pairs
MapSet(m, key, value) == {x \in m : x[1] # key} \cup {<<key, value>>}
\* mutant: the close handler deletes nothing
MapDeleteNothing(m, key) == m
MapDelete(m, key) == {x \in m : x[1] # key}
\* mutant: any transport of the map is returned
MapGetAny(m, key) ==
    IF m = {} THEN NoTransport ELSE (CHOOSE x \in m : TRUE)[2]
MapGet(m, key) ==
    IF \E x \in m : x[1] = key THEN (CHOOSE x \in m : x[1] = key)[2]
    ELSE NoTransport

\* the sessions whose request is open
OpenSessions == {k \in 1..Len(connections) : connections[k].state = "open"}

\* GET /sse up to `await mcp.connect(transport)`: the transport is created
\* and stored, the close handler is registered
SseGet(k) ==
    /\ server.started /\ server.remote
    /\ connections[k].state = "none"
    /\ \A j \in 1..(k - 1) : connections[j].state # "none"
    /\ transports' = MapSet(transports, SessionId(k), Transport(k))
    /\ connections' = [connections EXCEPT ![k] =
                          [state |-> "open", mcp |-> "pending", status |-> 200]]
    /\ UNCHANGED <<mapVars, toolVars, tokVars, refVars>>
    /\ UNCHANGED <<invocations, server, posted>>

\* mcp.connect and the two logging messages settle; a failure is caught and
\* answered with res.status(500)
McpConnectSettles(k) ==
    /\ connections[k].mcp = "pending"
    /\ \E ok \in BOOLEAN :
         connections' = [connections EXCEPT
                            ![k].mcp = IF ok THEN "connected" ELSE "failed",
                            ![k].status = IF ok THEN @ ELSE 500]
    /\ UNCHANGED <<mapVars, toolVars, tokVars, refVars>>
    /\ UNCHANGED <<invocations, server, transports, posted>>

\* req.on('close', () => transports.delete(sessionId))
ReqClose(k) ==
    /\ connections[k].state = "open"
    /\ transports' = MapDelete(transports, SessionId(k))
    /\ connections' = [connections EXCEPT ![k].state = "closed"]
    /\ UNCHANGED <<mapVars, toolVars, tokVars, refVars>>
    /\ UNCHANGED <<invocations, server, posted>>

\* req.query.sessionId of a POST /messages
SessionIdParams ==
    {Undefined, Str(<<>>), Str(UnknownSessionId)}
        \cup {Str(SessionId(k)) : k \in 1..MaxSessions}

\* POST /messages; `open` keeps the sessions open when the request arrived
PostMessages ==
    /\ server.started /\ server.remote
    /\ \E sessionId \in SessionIdParams, handled \in BOOLEAN :
         LET transport == MapGet(transports, sessionId.value)
             answer(status, res) ==
                 [sessionId |-> sessionId, status |-> status,
                  transport |-> res, open |-> OpenSessions]
         IN  posted' =
                 IF ~Truthy(sessionId) THEN answer(400, 0)
                 ELSE IF transport = NoTransport THEN answer(400, 0)
                 ELSE IF handled THEN answer(202, transport.res)
                 ELSE answer(500, transport.res)
    /\ UNCHANGED <<mapVars, toolVars, tokVars, refVars>>
    /\ UNCHANGED <<invocations, server, transports, connections>>

InitServer ==
    /\ invocations = <<>>
    /\ server = [started |-> FALSE]
    /\ transports = {}
    /\ connections = <<>>
    /\ posted = [status |-> 0]
    /\ MapIdle
    /\ ToolsIdle
    /\ TokenIdle
    /\ RefIdle

NextServer ==
    \/ RunCommand
    \/ \E k \in 1..Len(connections) : SseGet(k)
    \/ \E k \in 1..Len(connections) : McpConnectSettles(k)
    \/ \E k \in 1..Len(connections) : ReqClose(k)
    \/ PostMessages

SpecServer == InitServer /\ [][NextServer]_vars

\* ------------------------------------------------------------------------
\* Properties of mapSemaphore (checked under SpecMap)
\* ------------------------------------------------------------------------
\* transforms started and not yet settled
InFlight == {i \in 1..Len(items) : q[i] = "pending"}

Rejected == {i \in 1..Len(items) : q[i] = "rejected"}

\* the per-item results in the order the transforms fulfilled
ResultsInFulfilOrder == [k \in 1..Len(fulfilOrder) |-> items[fulfilOrder[k]]]

\* C1: for 1 <= N <= M, at no point are more than N transform calls started
\* and not yet settled.
C1_BoundedConcurrency ==
    (concurrency <= Len(items)) => Cardinality(InFlight) <= concurrency

\* C1 witness: the limit is reached again after an earlier transform settled
\* and a later item was started in its place.
C1_Witness ==
    /\ concurrency < Len(items)
    /\ Cardinality(InFlight) = concurrency
    /\ nextItem > concurrency + 1
    /\ \E i \in 1..Len(items) : q[i] \in {"fulfilled", "rejected"}

\* C2 (as claimed): when a transform rejected, mapSemaphore does not return
\* an array as success, for every sequence of length >= 2.
C2_FailurePropagates ==
    (Len(items) >= 2 /\ pc = "returned") => Rejected = {}

\* C3: when no transform rejects, the returned array has the length of the
\* input and holds the result of each item exactly once.
C3_Completeness ==
    (pc = "returned" /\ Rejected = {}) =>
        /\ Len(results) = Len(items)
        /\ Range(results) = Range(items)

\* C3 witness: a full result array that is not in input order.
C3_Witness ==
    /\ pc = "returned"
    /\ Rejected = {}
    /\ Len(items) >= 2
    /\ Len(results) = Len(items)
    /\ results # items

\* C4: the returned array is in completion order: a's result precedes b's
\* exactly when a's transform fulfilled before b's.
C4_CompletionOrder ==
    (pc = "returned") => results = ResultsInFulfilOrder

\* C4 witness: a later input item fulfilled first and its result comes first.
C4_Witness ==
    /\ pc = "returned"
    /\ Len(results) >= 2
    /\ results[1] > results[2]
    /\ fulfilOrder[1] > fulfilOrder[2]

\* the promise returned by mapSemaphore has settled
Settled == pc \in {"returned", "rejected"}

\* C18: when every started transform eventually settles, the promise
\* returned by mapSemaphore eventually settles, and when it has fulfilled no
\* started transform is still unsettled.
C18_Termination ==
    /\ <>Settled
    /\ [](pc = "returned" => InFlight = {})

\* C18 witness: mapSemaphore fulfilled after it had waited on a race (more
\* items than the limit) and on the final wait.
C18_Witness ==
    /\ pc = "returned"
    /\ Len(items) > concurrency
    /\ awaited.kind = "all"
    /\ Len(results) = Len(items)

\* mapSemaphore is suspended on a race and no job is queued: only the
\* completion of a transform can let it start the next item
WaitsForCompletion == pc = "awaitRace" /\ micro = <<>>

\* C19: mapSemaphore waits for a completion before starting the next item
\* only when N transforms are running (with fewer running and no failure it
\* goes on to start the next item), and items are started in input order.
C19_WorkConserving ==
    /\ (WaitsForCompletion /\ Rejected = {}) =>
           Cardinality(InFlight) = concurrency
    /\ \A i \in 1..Len(items) : (q[i] # "unstarted") <=> (i < nextItem)

\* C19 witness: after an earlier transform completed and a later item was
\* started in its place, the function waits again with N transforms running
\* and items left to start.
C19_Witness ==
    /\ WaitsForCompletion
    /\ Rejected = {}
    /\ fulfilOrder # <<>>
    /\ nextItem <= Len(items)
    /\ Cardinality(InFlight) = concurrency

\* C20: after mapSemaphore rejected, no transform is started for the items
\* not yet started, and every transform in flight stays in flight until it
\* settles by itself (it can still complete; nothing cancels it).
C20_NoStartAfterReject ==
    /\ [][pc = "rejected" =>
             /\ pc' = "rejected"
             /\ nextItem' = nextItem
             /\ \A i \in 1..Len(items) :
                   /\ (q[i] = "unstarted") => (q'[i] = "unstarted")
                   /\ (q[i] = "pending") => (q'[i] # "unstarted")]_vars
    /\ [](pc = "rejected" => \A i \in InFlight : ENABLED SettleAny(i))

\* C20 witness: the function has rejected while items were not yet started
\* and a transform was still in flight.
C20_Witness ==
    /\ pc = "rejected"
    /\ nextItem <= Len(items)
    /\ InFlight # {}
    /\ Rejected # {}

\* ------------------------------------------------------------------------
\* Properties of the tool handlers
\* ------------------------------------------------------------------------
\* the keystore entries other than the one the last invocation addressed
OtherEntries(r) == {e \in Entries : e # <<r.net, r.acct>>}

\* C5 (as claimed): every failure of a tool handler is a returned text that
\* begins with `Error:`; none has another prefix and none escapes the handler
\* as an exception.
C5_FailuresBeginWithError ==
    (resp.outcome = "failure") =>
        /\ ~resp.thrown
        /\ resp.text # <<>>
        /\ resp.text[1] = "Error: "

\* C6 (as claimed): whenever executeRefSwap returned { ok: false }, the
\* response of ref_finance_execute_swap is an `Error:` message and no
\* `Swap result:` payload, for both swap types.
C6_FailedSwapIsError ==
    (resp.tool = "ref_finance_execute_swap" /\ resp.inner = "err") =>
        /\ resp.text[1] = "Error: "
        /\ resp.text[1] # "Swap result: "

\* C7 (as claimed): after account_delete_account reported the deletion of X
\* on network n, the keystore holds no key pair for (n, X).
C7_DeleteRemovesLocalKey ==
    (resp.tool = "account_delete_account" /\ resp.outcome = "success") =>
        keystore[<<resp.net, resp.acct>>] = NoKey

\* C8: a system_remove_local_account step leaves every keystore entry other
\* than the addressed (networkId, accountId) unchanged, leaves the ledger
\* unchanged and submits no transaction.
C8_RemoveFrame ==
    [][system_remove_local_account =>
          /\ \A e \in OtherEntries(resp') : keystore'[e] = keystore[e]
          /\ chain' = chain
          /\ submitted' = {}]_vars

\* C8 witness: the addressed entry was removed while another account still
\* has its key and the addressed account is still on the ledger.
C8_Witness ==
    /\ resp.tool = "system_remove_local_account"
    /\ resp.outcome = "success"
    /\ keystore[<<resp.net, resp.acct>>] = NoKey
    /\ chain[<<resp.net, resp.acct>>].exists
    /\ \E e \in OtherEntries(resp) : keystore[e] # NoKey

\* C9 (as claimed): a system_import_account step writes a key only when the
\* account exists on the addressed network and the key pair's public key is
\* one of its on-chain access keys; in every other outcome the keystore is
\* unchanged and a failure message is returned.
C9_ImportOnlyOnMatch ==
    [][system_import_account =>
          IF resp'.outcome = "success"
          THEN /\ <<resp'.net, resp'.acct>> \in Entries
               /\ chain[<<resp'.net, resp'.acct>>].exists
               /\ keystore'[<<resp'.net, resp'.acct>>] # NoKey
               /\ PublicKeyOf(keystore'[<<resp'.net, resp'.acct>>])
                      \in chain[<<resp'.net, resp'.acct>>].keys
               /\ \A e \in OtherEntries(resp') : keystore'[e] = keystore[e]
          ELSE /\ keystore' = keystore
               /\ ~resp'.thrown
               /\ resp'.text # <<>>]_vars

\* ------------------------------------------------------------------------
\* Properties of NearToken
\* ------------------------------------------------------------------------
\* C10: for every non-negative amount v, given as bigint or as its decimal
\* string, parse_yocto_near(v) makes a token and as_yocto_near() of it is v.
C10_RoundTrip ==
    \A v \in 0..MaxYocto :
        (tokInput \in {BigIntInput(v), StringInput(DecimalString(v))}) =>
            /\ tokResult.kind # "error"
            /\ (tokResult.kind = "bigint") => (tokResult.value = v)

\* C10 witness: a three-digit decimal string went through the round trip.
C10_Witness ==
    /\ tokInput.kind = "string"
    /\ Len(tokInput.chars) = 3
    /\ tokResult.kind = "bigint"
    /\ tokResult.value >= 100
    /\ tokInput.chars = DecimalString(tokResult.value)

\* an argument that denotes a negative amount
NegativeInput(input) ==
    \/ input.kind \in {"bigint", "new"} /\ input.value < 0
    \/ input.kind = "string" /\ StringToBigInt(input.chars).ok
          /\ StringToBigInt(input.chars).value < 0
    \/ input.kind = "near" /\ input.class \in {"finite", "infinite"} /\ input.sign < 0

\* C11: every construction of a NearToken from a negative value (constructor,
\* parse_yocto_near, parse_near) fails with an error and makes no token, and
\* every token that exists holds a value >= 0.
C11_NonNegative ==
    /\ token.exists => token.yoctoNear >= 0
    /\ NegativeInput(tokInput) => (tokResult.kind = "error" /\ ~token.exists)

\* C11 witness: parse_near of a negative amount whose product is a negative
\* integer was refused by the constructor inside parse_yocto_near.
C11_Witness ==
    /\ tokInput.kind = "near"
    /\ tokInput.class = "finite"
    /\ tokInput.sign < 0
    /\ tokResult.kind = "error"
    /\ tokResult.value = "Invalid yoctoNEAR amount"
    /\ ~token.exists

\* ------------------------------------------------------------------------
\* Properties of the Ref Finance helpers
\* ------------------------------------------------------------------------
\* a call of refFinanceGetEstimate with its arguments
EstimateCall(call) ==
    call.fn = "refFinanceGetEstimate" /\ "supplyIn" \in DOMAIN call

\* a present supply that is the decimal string of a non-negative integer
CanonicalNat(str) == IsDigits(str) /\ DecimalString(DigitsValue(str, 10)) = str
NatSupply(supply) == supply.present /\ CanonicalNat(supply.chars)

\* the estimate of the claimed formula on the reserves as stored
FormulaNumerator(call) ==
    DigitsValue(call.amountIn, 10) * (FEE_DIVISOR - call.fee)
        * DigitsValue(call.supplyOut.chars, 10)
FormulaDenominator(call) ==
    FEE_DIVISOR * DigitsValue(call.supplyIn.chars, 10)
        + DigitsValue(call.amountIn, 10) * (FEE_DIVISOR - call.fee)

\* C12 (as claimed): for reserves reserve_in, reserve_out as stored in
\* pool.supplies, refFinanceGetEstimate returns
\* floor(amount_in*(10000-fee)*reserve_out / (10000*reserve_in + amount_in*(10000-fee)))
\* for every decimals value of the two tokens.
C12_EstimateFormula ==
    (/\ EstimateCall(refCall)
     /\ NatSupply(refCall.supplyIn)
     /\ NatSupply(refCall.supplyOut)
     /\ CanonicalNat(refCall.amountIn)
     /\ FormulaDenominator(refCall) > 0) =>
        /\ refResult.result.ok
        /\ refResult.result.value =
               DecimalString(FormulaNumerator(refCall) \div FormulaDenominator(refCall))

\* C13 (as claimed): for a pool whose reserve of the input asset is zero,
\* refFinanceGetEstimate returns { ok: false } for every amount and fee.
C13_ZeroReserveFails ==
    (/\ EstimateCall(refCall)
     /\ refCall.supplyIn = Supply(<<"0">>)) =>
        ~refResult.result.ok

\* a reserve that is missing, no integer string, or a negative integer
BadSupply(supply) ==
    \/ ~supply.present
    \/ ~StringToBigInt(supply.chars).ok
    \/ StringToBigInt(supply.chars).value < 0

\* C14 (as claimed): refFinanceGetEstimate returns { ok: false } whenever
\* the reserve of the input or of the output token is missing, is no integer
\* string, or is a negative integer.
C14_BadReserveFails ==
    (/\ EstimateCall(refCall)
     /\ (BadSupply(refCall.supplyIn) \/ BadSupply(refCall.supplyOut))) =>
        ~refResult.result.ok

\* the ids of a list of pools
PoolIds(pools) == {pools[k].id : k \in 1..Len(pools)}

\* C15 (as claimed): refFinanceGetPoolsInfo returns { ok: true } only if
\* every get_pools page request succeeded; the ok list never misses the
\* pools of a failed page, whatever the number of pages and the order in
\* which the page requests complete.
C15_BatchAllOrNothing ==
    (/\ refResult.fn = "refFinanceGetPoolsInfo"
     /\ refResult.result.ok) =>
        /\ Rejected = {}
        /\ PoolIds(refResult.result.value) = 0..(refCall.numberOfPools - 1)

\* C16 (as claimed): no function declared to return Result or
\* Promise<Result> throws or rejects when its external call fails or its
\* input is invalid; the failure is returned as { ok: false }.
C16_ResultDiscipline ==
    (refResult.fn \in ResultFunctions) =>
        /\ ~refResult.thrown
        /\ (refCall.fn = refResult.fn /\ "externalOk" \in DOMAIN refCall
               /\ ~refCall.externalOk) => ~refResult.result.ok

\* the indices of a record at which the asset id is key and an amount exists
IndicesOf(call, key) ==
    {i \in 1..Min(Len(call.token_account_ids), Len(call.amounts)) :
        call.token_account_ids[i] = key}

\* the largest element of a non-empty set of indices
Last(indices) == CHOOSE i \in indices : \A j \in indices : j <= i

\* C17 (as claimed): the keys of parsePool(record).supplies are exactly the
\* ids of record.token_account_ids, and each id maps to the amount at its
\* index (the last index when the id repeats), also when the amounts list is
\* shorter or longer than the id list.
C17_SuppliesKeys ==
    (refCall.fn = "parsePool") =>
        /\ DOMAIN refResult.result.supplies = Range(refCall.token_account_ids)
        /\ \A key \in Range(refCall.token_account_ids) :
              IndicesOf(refCall, key) # {} =>
                  /\ key \in DOMAIN refResult.result.supplies
                  /\ refResult.result.supplies[key]
                         = refCall.amounts[Last(IndicesOf(refCall, key))]

\* C21: the page offsets requested are 0, 1024, 2048, ... and cover every
\* index in [0, numberOfPools) once, and every returned pool has as id its
\* on-chain index, whatever the order in which the pages completed.
C21_PoolIndexPairing ==
    (refCall.fn = "refFinanceGetPoolsInfo" /\ pc # "idle") =>
        /\ \A k \in 1..Len(items) : items[k] = (k - 1) * PerPage
        /\ Len(items) * PerPage >= refCall.numberOfPools
        /\ (Len(items) - 1) * PerPage < refCall.numberOfPools
              \/ (Len(items) = 0 /\ refCall.numberOfPools = 0)
        /\ (refResult.fn = "refFinanceGetPoolsInfo" /\ refResult.result.ok) =>
              \A k \in 1..Len(refResult.result.value) :
                  refResult.result.value[k].id = refResult.result.value[k].onChain

\* C21 witness: a list returned from pages that completed out of input
\* order, the last of them partial.
C21_Witness ==
    /\ refResult.fn = "refFinanceGetPoolsInfo"
    /\ refResult.result.ok
    /\ Len(results) >= 2
    /\ results[1] > results[2]
    /\ refCall.numberOfPools % PerPage # 0
    /\ Len(refResult.result.value) = refCall.numberOfPools

\* ------------------------------------------------------------------------
\* Further properties of the tool handlers
\* ------------------------------------------------------------------------
\* C22: account_delete_account calls deleteAccount only as its fourth call,
\* after getAccount of the account, getAccount of the beneficiary and
\* getAccountSigner succeeded in this order; when a check failed there is no
\* deleteAccount call and no transaction.
C22_DeleteOrdering ==
    (resp.tool = "account_delete_account") =>
        /\ \A k \in 1..Len(resp.calls) :
              (resp.calls[k].op = "deleteAccount") =>
                  /\ k = 4
                  /\ resp.calls[1].op = "getAccount"
                  /\ resp.calls[1].acct = resp.acct
                  /\ resp.calls[2].op = "getAccount"
                  /\ resp.calls[2].acct = resp.beneficiary
                  /\ resp.calls[3].op = "getAccountSigner"
                  /\ \A j \in 1..3 : resp.calls[j].result.ok
        /\ (\E k \in 1..Len(resp.calls) :
               resp.calls[k].op # "deleteAccount" /\ ~resp.calls[k].result.ok) =>
              /\ submitted = {}
              /\ \A k \in 1..Len(resp.calls) : resp.calls[k].op # "deleteAccount"

\* C22 witness: the transaction was submitted after the three checks.
C22_Witness ==
    /\ resp.tool = "account_delete_account"
    /\ Len(resp.calls) = 4
    /\ resp.calls[4].op = "deleteAccount"
    /\ resp.calls[4].result.ok
    /\ submitted # {}

\* the entry the response must hold for a token of the search result
ExpectedEntry(contract) ==
    IF contract.contract \in refCall.fetchOk THEN ContractInfo(contract.contract)
    ELSE contract

\* C23: a finished search_near_fungible_tokens whose token search succeeded
\* did not throw and is no failure; its response holds one entry per token of
\* the search result, at most maxNumberOfResults of them: the detailed info
\* where the fetch succeeded, the listing record of that token where it failed.
C23_PerTokenTolerance ==
    /\ pc # "rejected"
    /\ (resp.tool = SearchTool /\ refCall.tokenContracts # <<>>) =>
          /\ ~resp.thrown
          /\ resp.outcome = "success"
          /\ Len(resp.text) = Len(refCall.tokenContracts)
          /\ Len(resp.text) <= refCall.maxNumberOfResults
          /\ Range(resp.text) = {ExpectedEntry(refCall.tokenContracts[k]) :
                                    k \in 1..Len(refCall.tokenContracts)}

\* C23 witness: a response for two tokens, one fetched and one not.
C23_Witness ==
    /\ resp.tool = SearchTool
    /\ resp.outcome = "success"
    /\ Len(resp.text) = 2
    /\ \E k \in 1..2 : refCall.tokenContracts[k].contract \in refCall.fetchOk
    /\ \E k \in 1..2 : refCall.tokenContracts[k].contract \notin refCall.fetchOk

\* ------------------------------------------------------------------------
\* Properties of account_create_account (checked under SpecCreate)
\* ------------------------------------------------------------------------
\* invocation i returned a failure / reported `Account created`
CreateFailed(i) ==
    /\ invocations[i].pc = "returned"
    /\ invocations[i].text[1] = "Error: "
CreateSucceeded(i) ==
    /\ invocations[i].pc = "returned"
    /\ invocations[i].text[1] = "Account creation result: "

\* C24 (as claimed): when an account_create_account invocation that ran
\* alone has returned a failure, the keystore equals its content before the
\* call.
C24_FailedCreateKeepsKeystore ==
    \A i \in 1..MaxInvocations :
        (/\ CreateFailed(i)
         /\ \A j \in (1..MaxInvocations) \ {i} : invocations[j].pc = "idle") =>
            keystore = invocations[i].before

\* C25 (as claimed): once an invocation has reported `Account created: X`,
\* the keystore holds for X the key pair that invocation registered on-chain.
C25_CreatedKeyIsKept ==
    \A i \in 1..MaxInvocations :
        CreateSucceeded(i) =>
            keystore[<<invocations[i].net, invocations[i].newAccountId>>]
                = invocations[i].keyPair

\* the two tools that take tokenIn and tokenOut
SwapTools == {"ref_finance_get_swap_estimate", "ref_finance_execute_swap"}

\* C26 (as claimed): an invocation of either tool whose tokenIn and tokenOut
\* name the same contract id returns `Error: Token in and token out cannot be
\* the same` and submits no transaction.
C26_IdenticalTokensRejected ==
    (resp.tool \in SwapTools /\ resp.tokenIn = resp.tokenOut) =>
        /\ ~resp.thrown
        /\ resp.text = ErrorText("Token in and token out cannot be the same")
        /\ submitted = {}

\* C27 (as claimed): in a byPoolId swap that reached executeRefSwap, the
\* min_amount_out of the action is the estimate refFinanceGetEstimate gives
\* for the amount string handed to ft_transfer_call.
C27_EstimateForTransferredAmount ==
    (refCall.fn = "byPoolId" /\ refResult.swapped) =>
        LET forTransferred ==
                refFinanceGetEstimate(refCall.decimalsIn, refCall.decimalsOut,
                    refCall.supplyIn, refCall.supplyOut, refCall.fee,
                    refResult.amount)
        IN  /\ forTransferred.ok
            /\ refResult.min_amount_out = forTransferred.value

\* ------------------------------------------------------------------------
\* Properties of the server (checked under SpecServer)
\* ------------------------------------------------------------------------
\* the session a sessionId parameter names, 0 when it names none
SessionOf(sessionId) ==
    IF \E k \in 1..MaxSessions : Truthy(sessionId) /\ sessionId.value = SessionId(k)
    THEN CHOOSE k \in 1..MaxSessions : sessionId.value = SessionId(k)
    ELSE 0

\* C28: a POST /messages reaches a transport only when its sessionId names a
\* session that was open when the request arrived, and then the transport of
\* that session; a missing, empty, unknown or closed sessionId is answered
\* with 400 and reaches no transport.
C28_DispatchGuard ==
    (posted.status # 0) =>
        /\ (posted.transport # 0) =>
              /\ posted.transport = SessionOf(posted.sessionId)
              /\ posted.transport \in posted.open
        /\ (SessionOf(posted.sessionId) \notin posted.open) =>
              /\ posted.status = 400
              /\ posted.transport = 0

\* C28 witness: the sessionId of a closed connection was answered with 400
\* while another session was open.
C28_Witness ==
    /\ posted.status = 400
    /\ SessionOf(posted.sessionId) # 0
    /\ connections[SessionOf(posted.sessionId)].state = "closed"
    /\ posted.open # {}

\* C29: the transports map holds exactly the sessions whose request was
\* opened and has not closed, each with its own transport, whether or not
\* mcp.connect succeeded.
C29_SessionTable ==
    server.started =>
        transports = {<<SessionId(k), Transport(k)>> : k \in OpenSessions}

\* C29 witness: one session closed, another still open after its
\* mcp.connect failed.
C29_Witness ==
    /\ server.started
    /\ \E k \in 1..Len(connections) : connections[k].state = "closed"
    /\ \E k \in OpenSessions : connections[k].mcp = "failed"

\* C30 (as claimed): the directory handed to runMcpServer is the --key-dir
\* value when the flag is on the command line, otherwise NEAR_KEYSTORE when
\* it is set to a non-empty value, otherwise ~/.near-keystore.
C30_KeyDirPrecedence ==
    server.started =>
        /\ Truthy(server.keyDirArg) => server.keyDir = server.keyDirArg.value
        /\ (~server.keyDirArg.present /\ Truthy(server.envKeyDir)) =>
              server.keyDir = server.envKeyDir.value
        /\ (~server.keyDirArg.present /\ ~server.envKeyDir.present) =>
              server.keyDir = DefaultKeystore

====
